---- MODULE Spec2Model ----
(***************************************************************************)
(* devclean: the authorization / path-safety / deletion state machine of   *)
(* devclean/tools.py (execute_tool), over a small filesystem (Spec), the   *)
(* scan of devclean/scanner.py (SpecScan) and the size cache of            *)
(* devclean/cache.py (SpecCache).                                          *)
(*                                                                         *)
(* A path is the tuple pathlib keeps in PurePath.parts: the root ("/" or   *)
(* "//") followed by the segments.  pathlib comparisons (==,               *)
(* is_relative_to, relative_to) are lexical on that tuple; the kernel      *)
(* (exists, rmtree, rm -rf) and Path.resolve() interpret "..".             *)
(* The modelled filesystem has no symbolic links.                          *)
(***************************************************************************)
EXTENDS Integers, Sequences, FiniteSets, TLC

VARIABLES
    fs,        \* set of tracked directories (canonical parts) that exist on disk
    pending,   \* tools._pending_confirmations: set of str(path), kept as parts
    batch,     \* position of a running force_delete_cruft call (its loop state)
    last,      \* the call that was just executed and what it returned / did
    scan,      \* position of a running scan_all call, its inputs and its ScanResult
    cache,     \* ScanCache._cache: the entries of the size cache
    now,       \* time.time(), in seconds
    store,     \* the cache file: what _save_cache wrote, or what became of it
    inspected, \* history: the paths get_directory_size / list_directory looked at
    workers    \* the pool threads inside a cache call: position and locals

vars == <<fs, pending, batch, last, scan, cache, now, store, inspected, workers>>

----------------------------------------------------------------------------
(* pathlib *)

Root == <<"/">>

\* Path.home()
Home == <<"/", "home", "u">>

IsPrefix(a, b) == Len(a) <= Len(b) /\ SubSeq(b, 1, Len(a)) = a

RECURSIVE DropSegs(_)
\* PurePath parsing of the segments: "" (doubled or trailing slash) and "." vanish
DropSegs(s) ==
    IF s = <<>> THEN <<>>
    ELSE IF Head(s) \in {"", "."} THEN DropSegs(Tail(s))
    ELSE <<Head(s)>> \o DropSegs(Tail(s))

\* Path(args["path"]) of an absolute raw string: exactly two leading slashes
\* are kept as root "//", any other number collapses to "/"
PathOf(raw) ==
    <<(IF Head(raw) = "//" THEN "//" ELSE "/")>> \o DropSegs(Tail(raw))

RECURSIVE ResolveSegs(_, _)
ResolveSegs(acc, s) ==
    IF s = <<>> THEN acc
    ELSE IF Head(s) = ".."
         THEN ResolveSegs((IF Len(acc) > 1 THEN SubSeq(acc, 1, Len(acc) - 1) ELSE acc), Tail(s))
         ELSE ResolveSegs(acc \o <<Head(s)>>, Tail(s))

\* Path.resolve() on a filesystem without symlinks: the canonical form
Resolve(p) == ResolveSegs(Root, Tail(p))

\* PurePath.is_relative_to(other): lexical, other is a prefix of the parts
IsRelativeTo(p, other) == IsPrefix(other, p)

\* home.relative_to(path) does not raise ValueError
HomeRelativeTo(p) == IsPrefix(p, Home)

----------------------------------------------------------------------------
(* the filesystem *)

HomeParent == <<"/", "home">>
Documents  == Home \o <<"Documents">>
Npm        == Home \o <<".npm">>
Docker     == Home \o <<"Library", "Containers", "com.docker.docker">>

\* the directories whose existence is tracked; "/" always exists
Dirs == {HomeParent, Home, Documents, Npm, Docker}

\* the kernel resolves the path: every directory a ".." steps out of must
\* exist, and so must the directory the path names
Exists(p, disk) ==
    /\ \A i \in 2..Len(p) :
          p[i] = ".." => Resolve(SubSeq(p, 1, i - 1)) \in disk \cup {Root}
    /\ Resolve(p) \in disk \cup {Root}

\* what "rm -rf p" / shutil.rmtree(p) takes away: the directory and all below it
TreeOf(p, disk) == {d \in disk : IsPrefix(Resolve(p), d)}

\* the raw strings a caller passes as args["path"] (root, then the segments
\* between slashes)
RawInputs ==
    { <<"/", "home">>,
      <<"/", "home", "u">>,
      <<"/", "home", "u", ".npm">>,
      <<"/", "home", "u", ".", ".npm", "">>,
      <<"/", "home", "u", "Library", "Containers", "com.docker.docker">>,
      <<"/", "home", "u", "..", "u">>,
      <<"//", "home", "u", "Documents">> }

----------------------------------------------------------------------------
(* config.py *)

\* CRUFT_PATTERNS (three of its entries): the template's segments after {home}
CRUFT_PATTERNS ==
    << [path_template |-> <<".npm">>, check_installed |-> TRUE,
        safe |-> TRUE, min_size_mb |-> 100],
       [path_template |-> <<"Library", "Containers", "com.docker.docker">>,
        check_installed |-> TRUE, safe |-> FALSE, min_size_mb |-> 100],
       [path_template |-> <<"Library", "Caches", "Google">>,
        check_installed |-> FALSE, safe |-> TRUE, min_size_mb |-> 500] >>

\* pattern.path_template.format(home=home)
Expand(pattern) == Home \o pattern.path_template

----------------------------------------------------------------------------
(* tools.py: the authorization set and the protected list *)

\* a guardrail that lets every path through
check_confirmation_always(p, conf) == TRUE

\* check_confirmation(str(path))
check_confirmation(p, conf) == p \in conf

\* clear_confirmation(str(path))
clear_confirmation(p, conf) == conf \ {p}

\* require_confirmation(str(path))
require_confirmation(p, conf) == conf \cup {p}

\* is_known_cruft_pattern(path): str(path) equals an expanded template of a
\* pattern marked safe
is_known_cruft_pattern(p) ==
    \E i \in 1..Len(CRUFT_PATTERNS) :
        p = Expand(CRUFT_PATTERNS[i]) /\ CRUFT_PATTERNS[i].safe

\* the list "protected" built in delete_directory and approve_path_for_deletion
protected ==
    << Home,
       Home \o <<"Documents">>,
       Home \o <<"Desktop">>,
       Home \o <<"Downloads">>,
       Home \o <<"Pictures">>,
       Home \o <<"Music">>,
       Home \o <<"Movies">>,
       <<"/">>,
       <<"/", "System">>,
       <<"/", "Applications">> >>

RECURSIVE ProtectedLoop(_, _)
\* the for-loop over protected (force = false): "exact", "under", or "allow"
\* (the break on a known safe pattern, or the loop running out)
ProtectedLoop(p, i) ==
    IF i > Len(protected) THEN "allow"
    ELSE IF p = protected[i] THEN "exact"
    ELSE IF IsRelativeTo(p, protected[i])
         THEN (IF is_known_cruft_pattern(p) THEN "allow" ELSE "under")
    ELSE ProtectedLoop(p, i + 1)

\* the two safety checks of delete_directory, in order: the bypassable
\* protected list, then the parent-of-home check that force does not skip
SafetyCheck(p, force) ==
    IF ~force /\ ProtectedLoop(p, 1) # "allow" THEN ProtectedLoop(p, 1)
    ELSE IF HomeRelativeTo(p) THEN "contains_home"
    ELSE "allow"

----------------------------------------------------------------------------
(* the environment of one call *)

\* du -sk prints kilobytes
DuChoicesKB == {122880}

None == -1

\* what get_dir_size(path) gives for an existing path, as the cache and du
\* decide: a size in bytes, None (cached error, du exit # 0), or it raises
\* TimeoutError / ScanError
Measurements ==
    {[t |-> "size", bytes |-> kb * 1024] : kb \in DuChoicesKB}
        \cup {[t |-> "none", bytes |-> None],
              [t |-> "TimeoutError", bytes |-> None],
              [t |-> "ScanError", bytes |-> None]}

Raises(meas) == meas.t \in {"TimeoutError", "ScanError"}

\* how the removal ends: shutil.rmtree returns or raises; "sudo rm -rf" exits 0,
\* exits non-zero (stderr with "Operation not permitted", with "Permission
\* denied", or other text), runs into the 120 s timeout, or cannot be started
RmOutcomes(use_sudo) ==
    IF use_sudo
    THEN {"ok", "rc_not_permitted", "rc_permission_denied", "rc_other",
          "TimeoutExpired", "PermissionError"}
    ELSE {"ok", "PermissionError", "OSError"}

----------------------------------------------------------------------------
(* tools.py execute_tool: delete_directory *)

Outcome(kind, started, gone, conf, freed) ==
    [kind |-> kind, started |-> started, removed |-> gone, pending |-> conf,
     freed |-> freed]

\* a removal attempt that releases the authorization whatever its outcome
RemovalAlwaysReleases(p, use_sudo, meas, rm, disk, conf) ==
    IF rm = "ok"
        THEN Outcome("Succeeded", TRUE, TreeOf(p, disk),
                     clear_confirmation(p, conf), meas.bytes)
    ELSE IF use_sudo /\ rm = "rc_not_permitted"
        THEN Outcome("FullDiskAccessRequired", TRUE, {},
                     clear_confirmation(p, conf), None)
    ELSE IF use_sudo /\ rm \in {"rc_permission_denied", "rc_other"}
        THEN Outcome("SudoFailed", TRUE, {}, clear_confirmation(p, conf), None)
    ELSE IF rm = "PermissionError"
        THEN Outcome("PermissionDenied", TRUE, {}, clear_confirmation(p, conf), None)
    ELSE Outcome("UnknownError", TRUE, {}, clear_confirmation(p, conf), None)

\* a classification that does not look at the text "sudo rm" wrote
RemovalIgnoresStderr(p, use_sudo, meas, rm, disk, conf) ==
    IF rm = "ok"
        THEN Outcome("Succeeded", TRUE, TreeOf(p, disk),
                     clear_confirmation(p, conf), meas.bytes)
    ELSE IF use_sudo /\ rm \in {"rc_not_permitted", "rc_permission_denied",
                                 "rc_other"}
        THEN Outcome("SudoFailed", TRUE, {}, conf, None)
    ELSE IF rm = "PermissionError"
        THEN Outcome("PermissionDenied", TRUE, {}, conf, None)
    ELSE Outcome("UnknownError", TRUE, {}, conf, None)

\* the removal step and the classification of its outcome (the try block)
Removal(p, use_sudo, meas, rm, disk, conf) ==
    IF rm = "ok"
        THEN Outcome("Succeeded", TRUE, TreeOf(p, disk),
                     clear_confirmation(p, conf), meas.bytes)
    ELSE IF use_sudo /\ rm = "rc_not_permitted"
        THEN Outcome("FullDiskAccessRequired", TRUE, {}, conf, None)
    ELSE IF use_sudo /\ rm \in {"rc_permission_denied", "rc_other"}
        THEN Outcome("SudoFailed", TRUE, {}, conf, None)
    ELSE IF rm = "PermissionError"
        THEN Outcome("PermissionDenied", TRUE, {}, conf, None)
    ELSE Outcome("UnknownError", TRUE, {}, conf, None)

\* "size = get_dir_size(path)" outside the try block, then the removal: the
\* outcomes the environment can produce; kind "Raised" is an exception leaving
\* execute_tool
MeasureAndRemove(p, use_sudo, disk, conf) ==
    {IF Raises(meas) THEN Outcome("Raised", FALSE, {}, conf, None)
                     ELSE Removal(p, use_sudo, meas, rm, disk, conf) :
        meas \in Measurements, rm \in RmOutcomes(use_sudo)}

\* a handler that looks at the disk before it looks at the authorization set
DeleteDirectoryExistsFirst(p, use_sudo, force, disk, conf) ==
    IF ~Exists(p, disk)
        THEN {Outcome("NotFound", FALSE, {}, clear_confirmation(p, conf), None)}
    ELSE IF ~check_confirmation(p, conf)
        THEN {Outcome("Unauthorized", FALSE, {}, conf, None)}
    ELSE IF SafetyCheck(p, force) # "allow"
        THEN {Outcome("ProtectedDenied", FALSE, {}, conf, None)}
    ELSE MeasureAndRemove(p, use_sudo, disk, conf)

\* a handler that checks the safety of the path before anything else
DeleteDirectorySafetyFirst(p, use_sudo, force, disk, conf) ==
    IF SafetyCheck(p, force) # "allow"
        THEN {Outcome("ProtectedDenied", FALSE, {}, conf, None)}
    ELSE IF ~check_confirmation(p, conf)
        THEN {Outcome("Unauthorized", FALSE, {}, conf, None)}
    ELSE IF ~Exists(p, disk)
        THEN {Outcome("NotFound", FALSE, {}, clear_confirmation(p, conf), None)}
    ELSE MeasureAndRemove(p, use_sudo, disk, conf)

\* a handler that reports a missing path and keeps its authorization
DeleteDirectoryKeepsMissing(p, use_sudo, force, disk, conf) ==
    IF ~check_confirmation(p, conf)
        THEN {Outcome("Unauthorized", FALSE, {}, conf, None)}
    ELSE IF ~Exists(p, disk)
        THEN {Outcome("NotFound", FALSE, {}, conf, None)}
    ELSE IF SafetyCheck(p, force) # "allow"
        THEN {Outcome("ProtectedDenied", FALSE, {}, conf, None)}
    ELSE MeasureAndRemove(p, use_sudo, disk, conf)

\* the whole handler on the Path p: the set of outcomes it can end with
DeleteDirectory(p, use_sudo, force, disk, conf) ==
    IF ~check_confirmation(p, conf)
        THEN {Outcome("Unauthorized", FALSE, {}, conf, None)}
    ELSE IF ~Exists(p, disk)
        THEN {Outcome("NotFound", FALSE, {}, clear_confirmation(p, conf), None)}
    ELSE IF SafetyCheck(p, force) # "allow"
        THEN {Outcome("ProtectedDenied", FALSE, {}, conf, None)}
    ELSE MeasureAndRemove(p, use_sudo, disk, conf)

\* an approval that does not look at the protected list
ApprovePathAnyExisting(p, disk, conf) ==
    IF ~Exists(p, disk) THEN {Outcome("NonExistent", FALSE, {}, conf, None)}
    ELSE {Outcome((IF Raises(meas) THEN "Raised" ELSE "Approved"), FALSE, {},
                  require_confirmation(p, conf), meas.bytes) :
            meas \in Measurements}

\* approve_path_for_deletion: the path is registered before it is measured
ApprovePath(p, disk, conf) ==
    IF ~Exists(p, disk) THEN {Outcome("NonExistent", FALSE, {}, conf, None)}
    ELSE IF \E i \in 1..Len(protected) : p = protected[i]
        THEN {Outcome("Protected", FALSE, {}, conf, None)}
    ELSE {Outcome((IF Raises(meas) THEN "Raised" ELSE "Approved"), FALSE, {},
                  require_confirmation(p, conf), meas.bytes) :
            meas \in Measurements}

----------------------------------------------------------------------------
(* scanner.py: scan_known_cruft, find_venvs, find_node_modules, scan_all *)

\* VENV_SEARCH_DIRS (the two entries that exist on the modelled disk)
VENV_SEARCH_DIRS ==
    << Home \o <<"Documents", "GitHub">>, Home \o <<"Documents">> >>

\* VENV_NAMES (two of its entries)
VENV_NAMES == <<".venv", "venv">>

Google   == Home \o <<"Library", "Caches", "Google">>
GitHub   == Home \o <<"Documents", "GitHub">>
VenvA    == GitHub \o <<"proj", ".venv">>
VenvB    == Documents \o <<"app", "venv">>
NodeMods == GitHub \o <<"proj", "node_modules">>

\* the part of the scanned disk that is the same in every run: the project
\* directories, two virtual environments with their marker file, one
\* dependency tree
ProjectDirs ==
    {HomeParent, Home, Documents, GitHub, GitHub \o <<"proj">>,
     Documents \o <<"app">>, VenvA, VenvA \o <<"pyvenv.cfg">>,
     VenvB, VenvB \o <<"pyvenv.cfg">>, NodeMods}

\* the disks a scan runs on: one of the catalog targets may be missing
ScanDisks == {ProjectDirs \cup {Npm, Docker} \cup c : c \in SUBSET {Google}}

\* the directories a scan can measure
MeasuredDirs == {Npm, Docker, Google, VenvA, VenvB, NodeMods}

\* du -sk on the scanned disk: 80 MB, 120 MB or 600 MB
ScanDuChoicesKB == {81920, 122880, 614400}

\* get_dir_size during a scan: a size, None, or TimeoutError
ScanMeasurements ==
    {[t |-> "size", bytes |-> kb * 1024] : kb \in ScanDuChoicesKB}
        \cup {[t |-> "none", bytes |-> None],
              [t |-> "TimeoutError", bytes |-> None]}

\* get_dir_size on a discovered directory: 120 MB, 600 MB, None or TimeoutError
DiscoveryMeasurements ==
    {m \in ScanMeasurements : m.t = "size" => m.bytes >= 100 * 1024 * 1024}

Unmeasured == [t |-> "unmeasured", bytes |-> None]

\* "which <binary>": exit 0, exit 1, or subprocess.run raises
ProbeOutcomes == {"found", "missing", "fails"}

\* check_command_exists: returncode == 0, and False when anything is raised
check_command_exists(probe) == probe = "found"

CruftItem(path, size_bytes, safe, tool_installed) ==
    [path |-> path, size_bytes |-> size_bytes, safe |-> safe,
     tool_installed |-> tool_installed]

\* a threshold that takes the smaller of the two minimums
effective_min_smaller(pattern, min_size_mb) ==
    IF pattern.min_size_mb < min_size_mb THEN pattern.min_size_mb
    ELSE min_size_mb

\* effective_min = max(pattern.min_size_mb, min_size_mb)
effective_min(pattern, min_size_mb) ==
    IF pattern.min_size_mb > min_size_mb THEN pattern.min_size_mb
    ELSE min_size_mb

\* a worker task that reports a pattern whose measurement failed as an item
\* of size 0
scan_pattern_keeps_failed(pattern, min_size_mb, disk, meas, probe) ==
    IF ~Exists(Expand(pattern), disk) THEN <<>>
    ELSE IF Raises(meas) \/ meas.bytes = None
        THEN <<CruftItem(Expand(pattern), 0, pattern.safe, "None")>>
    ELSE IF meas.bytes < effective_min(pattern, min_size_mb) * 1024 * 1024
        THEN <<>>
    ELSE <<CruftItem(Expand(pattern), meas.bytes, pattern.safe,
                     IF ~pattern.check_installed THEN "None"
                     ELSE IF check_command_exists(probe) THEN "True"
                     ELSE "False")>>

\* scan_pattern: the list of the zero or one items the task returns; every
\* exception is caught inside the task
scan_pattern(pattern, min_size_mb, disk, meas, probe) ==
    IF ~Exists(Expand(pattern), disk) THEN <<>>
    ELSE IF Raises(meas) THEN <<>>
    ELSE IF meas.bytes = None THEN <<>>
    ELSE IF meas.bytes < effective_min(pattern, min_size_mb) * 1024 * 1024
        THEN <<>>
    ELSE <<CruftItem(Expand(pattern), meas.bytes, pattern.safe,
                     IF ~pattern.check_installed THEN "None"
                     ELSE IF check_command_exists(probe) THEN "True"
                     ELSE "False")>>

\* the tasks a pool of max_workers threads is running: the first max_workers
\* submitted tasks that are not done
RECURSIVE FirstNotDone(_, _, _)
FirstNotDone(i, done, n) ==
    IF n = 0 \/ i > Len(CRUFT_PATTERNS) THEN {}
    ELSE IF i \in done THEN FirstNotDone(i + 1, done, n)
    ELSE {i} \cup FirstNotDone(i + 1, done, n - 1)

Running(done, max_workers) == FirstNotDone(1, done, max_workers)

\* find <search_dir> -type d -name <name> -maxdepth 4
Find(search_dir, name, disk) ==
    {d \in disk : /\ IsPrefix(search_dir, d)
                  /\ Len(d) - Len(search_dir) <= 4
                  /\ d[Len(d)] = name}

\* the lines of find's output: a directory is printed before what is below it
RECURSIVE Lines(_)
Lines(found) ==
    IF found = {} THEN <<>>
    ELSE LET d == CHOOSE x \in found : \A y \in found : Len(x) <= Len(y)
         IN  <<d>> \o Lines(found \ {d})

\* the paths find_venvs visits, in order: search dirs, then names, then lines
RECURSIVE VenvLines(_, _, _)
VenvLines(i, j, disk) ==
    IF i > Len(VENV_SEARCH_DIRS) THEN <<>>
    ELSE IF ~Exists(VENV_SEARCH_DIRS[i], disk) \/ j > Len(VENV_NAMES)
        THEN VenvLines(i + 1, 1, disk)
    ELSE Lines(Find(VENV_SEARCH_DIRS[i], VENV_NAMES[j], disk))
            \o VenvLines(i, j + 1, disk)

\* the loop body of find_venvs over the visited paths; an exception of
\* get_dir_size is not a subprocess.TimeoutExpired and leaves the function
RECURSIVE FindVenvsLoop(_, _, _, _, _, _)
FindVenvsLoop(lines, seen_paths, venvs, min_size_mb, disk, du) ==
    IF lines = <<>> THEN [items |-> venvs, raised |-> <<>>]
    ELSE LET venv_path == Head(lines)
             size == du[venv_path]
         IN  IF venv_path \in seen_paths
                 THEN FindVenvsLoop(Tail(lines), seen_paths, venvs,
                                    min_size_mb, disk, du)
             ELSE IF (venv_path \o <<"pyvenv.cfg">>) \notin disk
                 THEN FindVenvsLoop(Tail(lines), seen_paths \cup {venv_path},
                                    venvs, min_size_mb, disk, du)
             ELSE IF Raises(size)
                 THEN [items |-> <<>>, raised |-> <<venv_path>>]
             ELSE IF size.bytes = None
                        \/ size.bytes < min_size_mb * 1024 * 1024
                 THEN FindVenvsLoop(Tail(lines), seen_paths \cup {venv_path},
                                    venvs, min_size_mb, disk, du)
             ELSE FindVenvsLoop(Tail(lines), seen_paths \cup {venv_path},
                                Append(venvs, CruftItem(venv_path, size.bytes,
                                                        TRUE, "True")),
                                min_size_mb, disk, du)

find_venvs(min_size_mb, disk, du) ==
    FindVenvsLoop(VenvLines(1, 1, disk), {}, <<>>, min_size_mb, disk, du)

\* the paths find_node_modules visits, in order
RECURSIVE NodeModulesLines(_, _)
NodeModulesLines(i, disk) ==
    IF i > Len(VENV_SEARCH_DIRS) THEN <<>>
    ELSE IF ~Exists(VENV_SEARCH_DIRS[i], disk) THEN NodeModulesLines(i + 1, disk)
    ELSE Lines(Find(VENV_SEARCH_DIRS[i], "node_modules", disk))
            \o NodeModulesLines(i + 1, disk)

\* the directory names that end with the text "node_modules"
EndsWithNodeModules == {"node_modules", "old_node_modules"}

\* "node_modules/node_modules" in line: a test on the text of the line
Nested(line) ==
    \E k \in 2..(Len(line) - 1) :
        line[k] \in EndsWithNodeModules /\ line[k + 1] = "node_modules"

RECURSIVE FindNodeModulesLoop(_, _, _, _)
FindNodeModulesLoop(lines, modules, min_size_mb, du) ==
    IF lines = <<>> THEN [items |-> modules, raised |-> <<>>]
    ELSE LET nm_path == Head(lines)
             size == du[nm_path]
         IN  IF Nested(nm_path)
                 THEN FindNodeModulesLoop(Tail(lines), modules, min_size_mb, du)
             ELSE IF Raises(size)
                 THEN [items |-> <<>>, raised |-> <<nm_path>>]
             ELSE IF size.bytes = None
                        \/ size.bytes < min_size_mb * 1024 * 1024
                 THEN FindNodeModulesLoop(Tail(lines), modules, min_size_mb, du)
             ELSE FindNodeModulesLoop(Tail(lines),
                                      Append(modules,
                                             CruftItem(nm_path, size.bytes,
                                                       TRUE, "True")),
                                      min_size_mb, du)

find_node_modules(min_size_mb, disk, du) ==
    FindNodeModulesLoop(NodeModulesLines(1, disk), <<>>, min_size_mb, du)

\* a sort that leaves the list as it is
SortBySizeNot(items) == items

RECURSIVE InsertBySize(_, _)
InsertBySize(item, sorted) ==
    IF sorted = <<>> THEN <<item>>
    ELSE IF Head(sorted).size_bytes >= item.size_bytes
        THEN <<Head(sorted)>> \o InsertBySize(item, Tail(sorted))
    ELSE <<item>> \o sorted

\* list.sort(key=lambda x: x.size_bytes, reverse=True): a stable sort, items
\* of equal size keep the order they had
RECURSIVE SortBySizeLoop(_)
SortBySizeLoop(items) ==
    IF items = <<>> THEN <<>>
    ELSE InsertBySize(items[Len(items)],
                      SortBySizeLoop(SubSeq(items, 1, Len(items) - 1)))

SortBySize(items) == SortBySizeLoop(items)

\* the minimum sizes scan_all passes to the two discovery functions
VenvMinSizeMb == 50
NodeModulesMinSizeMb == 200

\* scan_all after scan_known_cruft returned items (in completion order): the
\* two discovery passes, each inside its own try, then the three sorts
scan_all(items, include_venvs, include_node_modules, disk, du) ==
    LET v == IF include_venvs THEN find_venvs(VenvMinSizeMb, disk, du)
             ELSE [items |-> <<>>, raised |-> <<>>]
        n == IF include_node_modules
                 THEN find_node_modules(NodeModulesMinSizeMb, disk, du)
             ELSE [items |-> <<>>, raised |-> <<>>]
    IN  [items |-> SortBySize(items),
         venvs |-> SortBySize(v.items),
         node_modules |-> SortBySize(n.items),
         errors |-> [k \in 1..Len(v.raised) |-> <<"venvs", v.raised[k]>>]
                     \o [k \in 1..Len(n.raised) |-> <<"node_modules", n.raised[k]>>]]

\* a result whose items are the catalog items only
all_items_catalog(result) == result.items

\* ScanResult.all_items
all_items(result) == result.items \o result.venvs \o result.node_modules

NoResult == [items |-> <<>>, venvs |-> <<>>, node_modules |-> <<>>,
             errors |-> <<>>]

ScanIdle ==
    [phase |-> "idle", min_size_mb |-> 0, max_workers |-> 0,
     include_venvs |-> FALSE, include_node_modules |-> FALSE, done |-> {},
     du |-> [d \in MeasuredDirs |-> Unmeasured], items |-> <<>>,
     result |-> NoResult]

----------------------------------------------------------------------------
(* cache.py: ScanCache *)

\* the sweep of set(): len(self._cache) % 100 == 0
CleanEvery == 100

\* CacheEntry(timestamp, size_bytes, exists, error)
CacheEntry(timestamp, size_bytes, exists, error) ==
    [timestamp |-> timestamp, size_bytes |-> size_bytes, exists |-> exists,
     error |-> error]

\* what get() returns when it returns None
NoEntry == [timestamp |-> None]

\* the ScanCache object: ttl_seconds and the dict _cache.  The dict is kept in
\* two parts: entries, the function from the keys the model follows to their
\* CacheEntry, and fill, the number of entries under other keys (read from the
\* cache file when the object was made, all with timestamp fill_ts)
ScanCache(ttl_seconds, fill) ==
    [ttl_seconds |-> ttl_seconds, entries |-> <<>>, fill |-> fill,
     fill_ts |-> 0]

\* ScanCache(): ttl_seconds defaults to 3600
EmptyCache == ScanCache(3600, 0)

\* an expiry test that never finds an entry expired
is_expired_never(timestamp, ttl_seconds, t) == FALSE

\* _is_expired: time.time() - entry.timestamp > self.ttl_seconds
is_expired(timestamp, ttl_seconds, t) == t - timestamp > ttl_seconds

\* len(self._cache)
CacheLen(c) == Cardinality(DOMAIN c.entries) + c.fill

\* _clean_expired: every expired entry is deleted
clean_expired(c, t) ==
    LET keep == {k \in DOMAIN c.entries :
                    ~is_expired(c.entries[k].timestamp, c.ttl_seconds, t)}
    IN  [c EXCEPT !.entries = [k \in keep |-> c.entries[k]],
                  !.fill = IF is_expired(c.fill_ts, c.ttl_seconds, t)
                               THEN 0 ELSE @]

\* the key of a path: str(path.resolve())
CacheKey(path) == Resolve(path)

\* get(path): the entry returned (or NoEntry) and the cache afterwards
CacheGet(c, path, t) ==
    LET key == CacheKey(path) IN
    IF key \notin DOMAIN c.entries THEN [result |-> NoEntry, cache |-> c]
    ELSE IF is_expired(c.entries[key].timestamp, c.ttl_seconds, t)
        THEN [result |-> NoEntry,
              cache |-> [c EXCEPT !.entries =
                            [k \in DOMAIN c.entries \ {key} |-> c.entries[k]]]]
    ELSE [result |-> c.entries[key], cache |-> c]

\* set(path, size_bytes, exists, error): the cache afterwards
CacheSet(c, path, size_bytes, exists, error, t) ==
    LET key == CacheKey(path)
        entry == CacheEntry(t, size_bytes, exists, error)
        written == [c EXCEPT !.entries =
                       [k \in DOMAIN c.entries \cup {key} |->
                           IF k = key THEN entry ELSE c.entries[k]]]
    IN  IF CacheLen(written) % CleanEvery = 0 THEN clean_expired(written, t)
        ELSE written

\* invalidate(path)
CacheInvalidate(c, path) ==
    [c EXCEPT !.entries =
        [k \in DOMAIN c.entries \ {CacheKey(path)} |-> c.entries[k]]]

\* clear()
CacheClear(c) == [c EXCEPT !.entries = <<>>, !.fill = 0]

----------------------------------------------------------------------------
(* cache.py: the cache file (_load_cache, _save_cache, save) *)

\* the cache file when it does not exist
MissingFile == [state |-> "missing", entries |-> <<>>]

\* what the cache file can be without having been written by _save_cache:
\* missing, not readable by this user, not JSON, JSON whose second value is
\* a dict that CacheEntry(**value) rejects, or missing in a default cache
\* directory that cannot be created
DamagedFiles ==
    {[state |-> st, entries |-> <<>>] :
        st \in {"missing", "unreadable", "corrupt", "bad_entry", "no_directory"}}

\* ScanCache(ttl_seconds=...): _get_default_cache_file makes the cache
\* directory outside any try; _load_cache returns at once when the file is
\* missing and ends with an empty _cache when open, json.load or
\* CacheEntry(**value) raises
LoadCache(st, ttl_seconds) ==
    IF st.state = "no_directory"
        THEN [raised |-> TRUE, cache |-> ScanCache(ttl_seconds, 0)]
    ELSE IF st.state = "ok"
        THEN [raised |-> FALSE,
              cache |-> [ScanCache(ttl_seconds, 0) EXCEPT !.entries = st.entries]]
    ELSE [raised |-> FALSE, cache |-> ScanCache(ttl_seconds, 0)]

\* how the write of _save_cache ends: the document is written; mkdir or open
\* raises and the file stays as it was; json.dump raises after open
\* truncated the file
WriteOutcomes == {"ok", "open_fails", "dump_fails"}

\* _save_cache: every exception is swallowed
SaveCacheFile(c, st, w) ==
    IF w = "ok" THEN [state |-> "ok", entries |-> c.entries]
    ELSE IF w = "open_fails" THEN st
    ELSE [state |-> "corrupt", entries |-> <<>>]

----------------------------------------------------------------------------
(* scanner.py: get_dir_size *)

\* du -sk in get_dir_size: 80 MB or 600 MB
SizeDuChoicesKB == {81920, 614400}

\* how "du -sk path" ends: exit 0 with a number of kilobytes, exit 0 with
\* output that int() rejects, a non-zero exit, the timeout, subprocess.run
\* raises OSError, or it raises an exception whose str() is empty
DuOutcomes ==
    {[t |-> "rc0", kb |-> kb] : kb \in SizeDuChoicesKB}
        \cup {[t |-> x, kb |-> 0] :
                 x \in {"unparseable", "rc_nonzero", "TimeoutExpired", "OSError",
                        "Exception"}}

\* "if cached_entry.error": None and the empty string are false
Truthy(error) == error \notin {"None", ""}

Measured(t, bytes) == [t |-> t, bytes |-> bytes]

\* a measurement that answers a timeout with size 0
get_dir_size_zero_on_timeout(path, disk, c, t, du, use_cache) ==
    LET g == IF use_cache THEN CacheGet(c, path, t)
             ELSE [result |-> NoEntry, cache |-> c]
        put(size_bytes, exists, error) ==
            IF use_cache
                THEN CacheSet(g.cache, path, size_bytes, exists, error, t)
            ELSE g.cache
    IN  IF g.result # NoEntry
            THEN [result |-> IF Truthy(g.result.error)
                                 THEN Measured("none", None)
                             ELSE IF g.result.exists
                                 THEN Measured("size", g.result.size_bytes)
                             ELSE Measured("none", None),
                  cache |-> g.cache]
        ELSE IF ~Exists(path, disk)
            THEN [result |-> Measured("none", None),
                  cache |-> put(0, FALSE, "None")]
        ELSE IF du.t = "rc0"
            THEN [result |-> Measured("size", du.kb * 1024),
                  cache |-> put(du.kb * 1024, TRUE, "None")]
        ELSE IF du.t = "rc_nonzero"
            THEN [result |-> Measured("none", None), cache |-> g.cache]
        ELSE IF du.t = "TimeoutExpired"
            THEN [result |-> Measured("size", 0),
                  cache |-> put(0, TRUE, "Timeout")]
        ELSE IF du.t = "unparseable"
            THEN [result |-> Measured("ScanError", None),
                  cache |-> put(0, TRUE, "Parse error")]
        ELSE IF du.t = "OSError"
            THEN [result |-> Measured("ScanError", None),
                  cache |-> put(0, TRUE, "str(e)")]
        ELSE [result |-> Measured("ScanError", None),
              cache |-> put(0, TRUE, "")]

\* get_dir_size(path, use_cache=...): what the call returns or raises, and the
\* cache afterwards.  A cached entry answers first; then path.exists(), du and
\* the parse of its output, each failure writing an error entry
get_dir_size(path, disk, c, t, du, use_cache) ==
    LET g == IF use_cache THEN CacheGet(c, path, t)
             ELSE [result |-> NoEntry, cache |-> c]
        put(size_bytes, exists, error) ==
            IF use_cache
                THEN CacheSet(g.cache, path, size_bytes, exists, error, t)
            ELSE g.cache
    IN  IF g.result # NoEntry
            THEN [result |-> IF Truthy(g.result.error)
                                 THEN Measured("none", None)
                             ELSE IF g.result.exists
                                 THEN Measured("size", g.result.size_bytes)
                             ELSE Measured("none", None),
                  cache |-> g.cache]
        ELSE IF ~Exists(path, disk)
            THEN [result |-> Measured("none", None),
                  cache |-> put(0, FALSE, "None")]
        ELSE IF du.t = "rc0"
            THEN [result |-> Measured("size", du.kb * 1024),
                  cache |-> put(du.kb * 1024, TRUE, "None")]
        ELSE IF du.t = "rc_nonzero"
            THEN [result |-> Measured("none", None), cache |-> g.cache]
        ELSE IF du.t = "TimeoutExpired"
            THEN [result |-> Measured("TimeoutError", None),
                  cache |-> put(0, TRUE, "Timeout")]
        ELSE IF du.t = "unparseable"
            THEN [result |-> Measured("ScanError", None),
                  cache |-> put(0, TRUE, "Parse error")]
        ELSE IF du.t = "OSError"
            THEN [result |-> Measured("ScanError", None),
                  cache |-> put(0, TRUE, "str(e)")]
        ELSE [result |-> Measured("ScanError", None),
              cache |-> put(0, TRUE, "")]

\* no pool thread is inside a cache call
NoWorkers == [threads |-> <<>>, start |-> EmptyCache]

----------------------------------------------------------------------------
(* state machine *)

Idle == [active |-> FALSE, use_sudo |-> FALSE, todo |-> {}, deleted |-> {},
         failed |-> {}, total_freed |-> 0]

Call(op, p, force, o) ==
    [op |-> op, path |-> p, force |-> force, kind |-> o.kind,
     removed |-> o.removed]

\* the arguments and the environment of a call, next to its result
CallWith(c, confirm, use_sudo, rm, freed) ==
    [op |-> c.op, path |-> c.path, force |-> c.force, kind |-> c.kind,
     removed |-> c.removed, confirm |-> confirm, use_sudo |-> use_sudo,
     rm |-> rm, freed |-> freed]

\* how the removal ended in a call with outcome o: "none" when the handler
\* returned before the removal
RmOf(p, use_sudo, o, disk, conf) ==
    IF ~o.started THEN {"none"}
    ELSE {rm \in RmOutcomes(use_sudo) :
            Removal(p, use_sudo, Measured("size", o.freed), rm, disk, conf) = o}

Init ==
    /\ fs = Dirs
    /\ pending = {}
    /\ batch = Idle
    /\ last = Call("init", <<>>, FALSE, Outcome("none", FALSE, {}, {}, None))
    /\ scan = ScanIdle
    /\ cache = EmptyCache
    /\ now = 0
    /\ store = MissingFile
    /\ inspected = {}
    /\ workers = NoWorkers

\* what a scan can report: catalog patterns whose target exists
ScanCandidates(disk) ==
    {Expand(CRUFT_PATTERNS[i]) : i \in 1..Len(CRUFT_PATTERNS)} \cap disk

\* scan_disk: format_scan_result registers every item of the result
ScanDisk ==
    /\ ~batch.active
    /\ \E found \in SUBSET ScanCandidates(fs) :
        /\ pending' = pending \cup found
        /\ last' = Call("scan_disk", <<>>, FALSE,
                        Outcome("Scanned", FALSE, {}, {}, None))
    /\ UNCHANGED <<fs, batch, scan, cache, now, store, inspected, workers>>

ApprovePathForDeletion ==
    /\ ~batch.active
    /\ \E raw \in RawInputs :
        \E o \in ApprovePath(PathOf(raw), fs, pending) :
            /\ pending' = o.pending
            /\ last' = Call("approve_path_for_deletion", PathOf(raw), FALSE, o)
    /\ UNCHANGED <<fs, batch, scan, cache, now, store, inspected, workers>>

DeleteDirectoryCall ==
    /\ ~batch.active
    /\ \E raw \in RawInputs, use_sudo \in BOOLEAN, force \in BOOLEAN :
        \E o \in DeleteDirectory(PathOf(raw), use_sudo, force, fs, pending) :
            \E rm \in RmOf(PathOf(raw), use_sudo, o, fs, pending) :
                /\ fs' = fs \ o.removed
                /\ pending' = o.pending
                /\ last' = CallWith(Call("delete_directory", PathOf(raw), force, o),
                                    FALSE, use_sudo, rm, o.freed)
    /\ UNCHANGED <<batch, scan, cache, now, store, inspected, workers>>

\* a batch that starts without looking at confirm
BatchStartUnconfirmed(confirm, conf) ==
    IF conf = {} THEN "NothingPending" ELSE "Started"

\* the two early returns of force_delete_cruft: confirm is not true, or
\* _pending_confirmations is empty
BatchStart(confirm, conf) ==
    IF ~confirm THEN "NotConfirmed"
    ELSE IF conf = {} THEN "NothingPending"
    ELSE "Started"

\* force_delete_cruft up to the loop: confirm and the empty-set check, then the
\* snapshot list(_pending_confirmations)
ForceDeleteCruft ==
    /\ ~batch.active
    /\ \E confirm \in BOOLEAN, use_sudo \in BOOLEAN :
        LET kind == BatchStart(confirm, pending) IN
        /\ last' = CallWith(Call("force_delete_cruft", <<>>, FALSE,
                                 Outcome(kind, FALSE, {}, {}, None)),
                            confirm, use_sudo, "none", None)
        /\ batch' = IF kind = "Started"
                        THEN [Idle EXCEPT !.active = TRUE, !.use_sudo = use_sudo,
                                          !.todo = pending]
                    ELSE batch
    /\ UNCHANGED <<fs, pending, scan, cache, now, store, inspected, workers>>

\* the error text appended to failed_paths for a removal that did not succeed
FailureText(use_sudo, rm) ==
    IF use_sudo /\ rm = "rc_permission_denied" THEN "stderr: Permission denied"
    ELSE IF use_sudo /\ rm \in {"rc_not_permitted", "rc_other"} THEN "stderr"
    ELSE IF rm = "PermissionError" THEN "Permission denied"
    ELSE "str(e)"

\* one iteration of the loop body on path p: the outcomes the environment can
\* produce.  get_dir_size is called before the try block
BatchIteration(p, use_sudo, disk, conf) ==
    IF ~Exists(p, disk)
        THEN {Outcome("NotFound", FALSE, {}, clear_confirmation(p, conf), None)}
    ELSE {IF Raises(meas) THEN Outcome("Raised", FALSE, {}, conf, None)
          ELSE IF rm = "ok"
              THEN Outcome("Succeeded", TRUE, TreeOf(p, disk),
                           clear_confirmation(p, conf), meas.bytes)
          ELSE Outcome(FailureText(use_sudo, rm), TRUE, {}, conf, None) :
            meas \in Measurements, rm \in RmOutcomes(use_sudo)}

\* the loop body for the next path of the snapshot (a set has no order of its
\* own); an exception of get_dir_size ends the whole call
BatchStep ==
    /\ batch.active
    /\ \E p \in batch.todo :
        \E o \in BatchIteration(p, batch.use_sudo, fs, pending) :
            /\ fs' = fs \ o.removed
            /\ pending' = o.pending
            /\ last' = Call("force_delete_cruft", p, FALSE, o)
            /\ batch' =
                IF o.kind = "Raised" THEN Idle
                ELSE IF o.kind = "NotFound"
                    THEN [batch EXCEPT !.todo = @ \ {p}]
                ELSE IF o.kind = "Succeeded"
                    THEN [batch EXCEPT !.todo = @ \ {p},
                                       !.deleted = @ \cup {p},
                                       !.total_freed =
                                           IF o.freed > 0 THEN @ + o.freed ELSE @]
                ELSE [batch EXCEPT !.todo = @ \ {p},
                                   !.failed = @ \cup {<<p, o.kind>>}]
    /\ UNCHANGED <<scan, cache, now, store, inspected, workers>>

\* the retry hint: any("Permission denied" in item["error"])
RetryWithSudo(failed) ==
    \E f \in failed : f[2] \in {"Permission denied", "stderr: Permission denied"}

\* the two forms of the result text: with and without the retry hint
BatchReturned == {"Returned", "ReturnedRetryWithSudo"}

\* after the loop: the result text is built and returned
BatchReturn ==
    /\ batch.active
    /\ batch.todo = {}
    /\ batch' = Idle
    /\ last' = Call("force_delete_cruft", <<>>, FALSE,
                    Outcome((IF RetryWithSudo(batch.failed)
                                THEN "ReturnedRetryWithSudo" ELSE "Returned"),
                            FALSE, {}, {}, None))
    /\ UNCHANGED <<fs, pending, scan, cache, now, store, inspected, workers>>

\* between two calls, something outside the program removes a directory tree
EnvRemove ==
    /\ ~batch.active
    /\ \E d \in fs :
        /\ fs' = fs \ TreeOf(d, fs)
        /\ last' = Call("env", <<>>, FALSE,
                        Outcome("none", FALSE, {}, {}, None))
    /\ UNCHANGED <<pending, batch, scan, cache, now, store,
                 inspected, workers>>

Next ==
    \/ ScanDisk
    \/ ApprovePathForDeletion
    \/ DeleteDirectoryCall
    \/ ForceDeleteCruft
    \/ BatchStep
    \/ BatchReturn
    \/ EnvRemove

Spec == Init /\ [][Next]_vars

----------------------------------------------------------------------------
(* the scan: scan_disk = scan_all + format_scan_result, on a disk that does *)
(* not change while it is scanned                                          *)

\* the worker counts a caller can configure
MaxWorkers == 2

\* the min_size_mb arguments a caller passes
MinSizeChoices == {50, 200}

ScanInit ==
    /\ fs \in ScanDisks
    /\ pending = {}
    /\ batch = Idle
    /\ last = Call("init", <<>>, FALSE, Outcome("none", FALSE, {}, {}, None))
    /\ scan = ScanIdle
    /\ cache = EmptyCache
    /\ now = 0
    /\ store = MissingFile
    /\ inspected = {}
    /\ workers = NoWorkers

\* scan_all is entered: the tasks are submitted to the pool
ScanAllStart ==
    /\ scan.phase = "idle"
    /\ \E min_size_mb \in MinSizeChoices, max_workers \in 1..MaxWorkers,
          include_venvs \in BOOLEAN, include_node_modules \in BOOLEAN :
        scan' = [ScanIdle EXCEPT !.phase = "catalog",
                                 !.min_size_mb = min_size_mb,
                                 !.max_workers = max_workers,
                                 !.include_venvs = include_venvs,
                                 !.include_node_modules = include_node_modules]
    /\ UNCHANGED <<fs, pending, batch, last, cache, now, store,
                 inspected, workers>>

\* one running task completes and as_completed hands its result to the loop
\* that appends it to items
ScanPatternCompletes ==
    /\ scan.phase = "catalog"
    /\ \E i \in Running(scan.done, scan.max_workers) :
        LET pattern == CRUFT_PATTERNS[i] IN
        \E meas \in (IF Exists(Expand(pattern), fs) THEN ScanMeasurements
                     ELSE {Unmeasured}),
           probe \in ProbeOutcomes :
            scan' = [scan EXCEPT
                        !.done = @ \cup {i},
                        !.du[Expand(pattern)] = meas,
                        !.items = @ \o scan_pattern(pattern, scan.min_size_mb,
                                                    fs, meas, probe)]
    /\ UNCHANGED <<fs, pending, batch, last, cache, now, store,
                 inspected, workers>>

\* format_scan_result: require_confirmation(str(item.path)) for every item
RECURSIVE Registered(_, _)
Registered(items, conf) ==
    IF items = <<>> THEN conf
    ELSE Registered(Tail(items), require_confirmation(Head(items).path, conf))

\* the directories the discovery passes of this scan will measure
Discovered(include_venvs, include_node_modules) ==
    (IF include_venvs THEN {VenvA, VenvB} ELSE {})
        \cup (IF include_node_modules THEN {NodeMods} ELSE {})

\* the rest of scan_all once every task is done, and format_scan_result,
\* which registers str(item.path) of every item of the result
ScanAllReturns ==
    /\ scan.phase = "catalog"
    /\ scan.done = 1..Len(CRUFT_PATTERNS)
    /\ \E dm \in [Discovered(scan.include_venvs, scan.include_node_modules)
                    -> DiscoveryMeasurements] :
        \E du \in {[d \in MeasuredDirs |->
                      IF d \in DOMAIN dm THEN dm[d] ELSE scan.du[d]]} :
            \E result \in {scan_all(scan.items, scan.include_venvs,
                                    scan.include_node_modules, fs, du)} :
                /\ scan' = [scan EXCEPT !.phase = "returned", !.du = du,
                                        !.result = result]
                /\ pending' = Registered(all_items(result), pending)
    /\ last' = Call("scan_disk", <<>>, FALSE,
                    Outcome("Scanned", FALSE, {}, {}, None))
    /\ UNCHANGED <<fs, batch, cache, now, store, inspected, workers>>

ScanNext ==
    \/ ScanAllStart
    \/ ScanPatternCompletes
    \/ ScanAllReturns

SpecScan == ScanInit /\ [][ScanNext]_vars

----------------------------------------------------------------------------
(* the cache: one ScanCache object, its callers and the clock *)

\* the clock runs from 0 to MaxTime seconds
MaxTime == 3

\* the ttl_seconds a cache is made with
TtlChoices == {1, 2}

\* the numbers of entries under other keys found in the cache file
FillChoices == {0, 98}

\* the paths the callers pass: two spellings of one directory, and another
CachePaths == {Npm, Documents \o <<"..", ".npm">>, Docker}

\* the (size_bytes, exists, error) that get_dir_size passes to set()
SetArgs == {<<1000, TRUE, "None">>, <<2000, TRUE, "None">>,
            <<0, TRUE, "Timeout">>}

CacheCall(op, path, result, c, c2) ==
    [op |-> op, path |-> path, result |-> result,
     removed |-> DOMAIN c.entries \ DOMAIN c2.entries]

CacheInit ==
    /\ fs = Dirs
    /\ pending = {}
    /\ batch = Idle
    /\ scan = ScanIdle
    /\ \E ttl_seconds \in TtlChoices, fill \in FillChoices :
          cache = ScanCache(ttl_seconds, fill)
    /\ now = 0
    /\ store = MissingFile
    /\ inspected = {}
    /\ workers = NoWorkers
    /\ last = CacheCall("init", <<>>, NoEntry, EmptyCache, EmptyCache)

Get ==
    /\ \E path \in CachePaths :
        \E r \in {CacheGet(cache, path, now)} :
            /\ cache' = r.cache
            /\ last' = CacheCall("get", path, r.result, cache, r.cache)
    /\ UNCHANGED <<fs, pending, batch, scan, now, store, inspected, workers>>

Set ==
    /\ \E path \in CachePaths, a \in SetArgs :
        \E c2 \in {CacheSet(cache, path, a[1], a[2], a[3], now)} :
            /\ cache' = c2
            /\ last' = CacheCall("set", path, NoEntry, cache, c2)
    /\ UNCHANGED <<fs, pending, batch, scan, now, store, inspected, workers>>

Invalidate ==
    /\ \E path \in CachePaths :
        \E c2 \in {CacheInvalidate(cache, path)} :
            /\ cache' = c2
            /\ last' = CacheCall("invalidate", path, NoEntry, cache, c2)
    /\ UNCHANGED <<fs, pending, batch, scan, now, store, inspected, workers>>

Clear ==
    /\ cache' = CacheClear(cache)
    /\ last' = CacheCall("clear", <<>>, NoEntry, cache, CacheClear(cache))
    /\ UNCHANGED <<fs, pending, batch, scan, now, store, inspected, workers>>

\* save(): _clean_expired, then the file is written
Save ==
    /\ cache' = clean_expired(cache, now)
    /\ last' = CacheCall("save", <<>>, NoEntry, cache, clean_expired(cache, now))
    /\ UNCHANGED <<fs, pending, batch, scan, now, store, inspected, workers>>

\* a second passes
Tick ==
    /\ now < MaxTime
    /\ now' = now + 1
    /\ last' = CacheCall("tick", <<>>, NoEntry, cache, cache)
    /\ UNCHANGED <<fs, pending, batch, scan, cache, store, inspected, workers>>

CacheNext ==
    \/ Get
    \/ Set
    \/ Invalidate
    \/ Clear
    \/ Save
    \/ Tick

SpecCache == CacheInit /\ [][CacheNext]_vars

----------------------------------------------------------------------------
(* the discovery functions on disks with dependency trees inside others *)

NestedDirect == NodeMods \o <<"node_modules">>
NestedDeep   == NodeMods \o <<"pkg", "node_modules">>
OldModules   == Documents \o <<"old_node_modules">>
OldTree      == OldModules \o <<"node_modules">>

\* the disks searched: the project directories, and any of three more
\* node_modules directories
DiscoveryDisks ==
    {ProjectDirs \cup {NodeMods \o <<"pkg">>, OldModules} \cup c :
        c \in SUBSET {NestedDirect, NestedDeep, OldTree}}

\* the directories the two functions can measure
DiscoveryDirs == {VenvA, VenvB, NodeMods, NestedDirect, NestedDeep, OldTree}

\* get_dir_size on them: 120 MB, 600 MB, or TimeoutError
DiscoverySizes ==
    {m \in DiscoveryMeasurements : m.t \in {"size", "TimeoutError"}}

DiscoveryCall(op, du, r) ==
    [op |-> op, du |-> du, items |-> r.items, raised |-> r.raised]

DiscoveryInit ==
    /\ fs \in DiscoveryDisks
    /\ pending = {}
    /\ batch = Idle
    /\ scan = ScanIdle
    /\ cache = EmptyCache
    /\ now = 0
    /\ store = MissingFile
    /\ inspected = {}
    /\ workers = NoWorkers
    /\ \E du \in [DiscoveryDirs -> DiscoverySizes] :
          last = DiscoveryCall("init", du, [items |-> <<>>, raised |-> <<>>])

\* find_venvs(home, min_size_mb=50), as scan_all calls it
FindVenvs ==
    /\ last.op = "init"
    /\ last' = DiscoveryCall("find_venvs", last.du,
                             find_venvs(VenvMinSizeMb, fs, last.du))
    /\ UNCHANGED <<fs, pending, batch, scan, cache, now, store, inspected, workers>>

\* find_node_modules(home, min_size_mb=200), as scan_all calls it
FindNodeModules ==
    /\ last.op = "init"
    /\ last' = DiscoveryCall("find_node_modules", last.du,
                             find_node_modules(NodeModulesMinSizeMb, fs, last.du))
    /\ UNCHANGED <<fs, pending, batch, scan, cache, now, store, inspected, workers>>

DiscoveryNext ==
    \/ FindVenvs
    \/ FindNodeModules

SpecDiscovery == DiscoveryInit /\ [][DiscoveryNext]_vars

----------------------------------------------------------------------------
(* a run of set() calls on one cache, counted since the last sweep *)

\* the paths written: two spellings of the npm cache directory, and another
SweepPaths == {Npm, Documents \o <<"..", ".npm">>, Docker}

\* set() ran _clean_expired: len(self._cache) % 100 == 0 after the write
Sweeps(c, path) ==
    (Cardinality(DOMAIN c.entries \cup {CacheKey(path)}) + c.fill) % CleanEvery = 0

\* writes: the number of set() calls since the last one that ran the sweep
SweepCall(op, path, writes) == [op |-> op, path |-> path, writes |-> writes]

SweepInit ==
    /\ fs = Dirs
    /\ pending = {}
    /\ batch = Idle
    /\ scan = ScanIdle
    /\ \E ttl_seconds \in TtlChoices, fill \in FillChoices :
          cache = ScanCache(ttl_seconds, fill)
    /\ now = 0
    /\ store = MissingFile
    /\ inspected = {}
    /\ workers = NoWorkers
    /\ last = SweepCall("init", <<>>, 0)

\* set(path, 1000, True): the run is followed up to CleanEvery calls
SweepSet ==
    /\ last.writes < CleanEvery
    /\ \E path \in SweepPaths :
        /\ cache' = CacheSet(cache, path, 1000, TRUE, "None", now)
        /\ last' = SweepCall("set", path,
                             IF Sweeps(cache, path) THEN 0 ELSE last.writes + 1)
    /\ UNCHANGED <<fs, pending, batch, scan, now, store, inspected, workers>>

SweepTick ==
    /\ now < MaxTime
    /\ now' = now + 1
    /\ UNCHANGED <<fs, pending, batch, last, scan, cache, store, inspected, workers>>

SweepNext ==
    \/ SweepSet
    \/ SweepTick

SpecSweep == SweepInit /\ [][SweepNext]_vars

----------------------------------------------------------------------------
(* get_dir_size and the catalog task on the process-wide cache, its file,  *)
(* the clock and a directory that comes and goes                           *)

\* the paths measured: two spellings of the npm cache directory
SizePaths == {Npm, Documents \o <<"..", ".npm">>}

\* the catalog patterns whose task is followed
SizePatterns == {1}

Returned == Measured("returned", None)

SizeCall(op, path, du, hit, result, items, probe, use_cache) ==
    [op |-> op, path |-> path, du |-> du, hit |-> hit, result |-> result,
     items |-> items, probe |-> probe, use_cache |-> use_cache]

NoDu == [t |-> "none", kb |-> 0]

SizeInit ==
    /\ fs = Dirs
    /\ pending = {}
    /\ batch = Idle
    /\ scan = ScanIdle
    /\ \E ttl_seconds \in TtlChoices : cache = ScanCache(ttl_seconds, 0)
    /\ now = 0
    /\ store = MissingFile
    /\ inspected = {}
    /\ workers = NoWorkers
    /\ last = SizeCall("init", <<>>, NoDu, FALSE, Returned, <<>>, "none", FALSE)

\* get_cache() found no ScanCache object: the constructor raised
NoCacheObject == last.op = "ScanCache" /\ last.result.t = "Raised"

\* the du outcomes that can follow: none when the cache answers or the path
\* does not exist
DuOf(path, use_cache) ==
    IF (use_cache /\ CacheGet(cache, path, now).result # NoEntry)
           \/ ~Exists(path, fs)
        THEN {NoDu}
    ELSE DuOutcomes

\* a direct call get_dir_size(path, use_cache=...)
GetDirSize ==
    /\ ~NoCacheObject
    /\ \E path \in SizePaths, use_cache \in BOOLEAN :
        \E du \in DuOf(path, use_cache) :
            \E r \in {get_dir_size(path, fs, cache, now, du, use_cache)} :
                /\ cache' = r.cache
                /\ last' = SizeCall("get_dir_size", path, du,
                                    use_cache /\ CacheGet(cache, path, now).result # NoEntry,
                                    r.result, <<>>, "none", use_cache)
    /\ UNCHANGED <<fs, pending, batch, scan, now, store, inspected, workers>>

\* the probe outcomes that can follow: the probe is run only for a pattern
\* with check_installed whose directory is large enough to be reported
ProbeOf(pattern, min_size_mb, meas) ==
    IF pattern.check_installed
           /\ scan_pattern(pattern, min_size_mb, fs, meas, "found") # <<>>
        THEN ProbeOutcomes
    ELSE {"none"}

\* the worker task scan_pattern(pattern) of scan_known_cruft
ScanPatternTask ==
    /\ ~NoCacheObject
    /\ \E i \in SizePatterns, min_size_mb \in MinSizeChoices :
        LET path == Expand(CRUFT_PATTERNS[i]) IN
        \E du \in DuOf(path, TRUE) :
            \E r \in {get_dir_size(path, fs, cache, now, du, TRUE)} :
                \E probe \in ProbeOf(CRUFT_PATTERNS[i], min_size_mb, r.result) :
                    /\ cache' = IF Exists(path, fs) THEN r.cache ELSE cache
                    /\ last' = SizeCall("scan_pattern", path, du,
                                        CacheGet(cache, path, now).result # NoEntry,
                                        r.result,
                                        scan_pattern(CRUFT_PATTERNS[i], min_size_mb,
                                                     fs, r.result, probe),
                                        probe, TRUE)
    /\ UNCHANGED <<fs, pending, batch, scan, now, store, inspected, workers>>

\* the write outcomes the file allows
WritesOn(st) == IF st.state = "no_directory" THEN {"open_fails"} ELSE WriteOutcomes

\* save_cache(): ScanCache.save() = _clean_expired, then _save_cache
SaveCache ==
    /\ ~NoCacheObject
    /\ \E w \in WritesOn(store) :
        /\ cache' = clean_expired(cache, now)
        /\ store' = SaveCacheFile(clean_expired(cache, now), store, w)
        /\ last' = SizeCall("save", <<>>, [t |-> w, kb |-> 0], FALSE, Returned, <<>>,
                            "none", FALSE)
    /\ UNCHANGED <<fs, pending, batch, scan, now, inspected, workers>>

\* clear_cache(): ScanCache.clear() = _cache.clear(), then _save_cache
ClearCache ==
    /\ ~NoCacheObject
    /\ \E w \in WritesOn(store) :
        /\ cache' = CacheClear(cache)
        /\ store' = SaveCacheFile(CacheClear(cache), store, w)
        /\ last' = SizeCall("clear", <<>>, [t |-> w, kb |-> 0], FALSE, Returned, <<>>,
                            "none", FALSE)
    /\ UNCHANGED <<fs, pending, batch, scan, now, inspected, workers>>

\* a new process: its first get_cache() constructs the ScanCache from the file
NewScanCache ==
    /\ \E r \in {LoadCache(store, cache.ttl_seconds)} :
        /\ cache' = r.cache
        /\ last' = SizeCall("ScanCache", <<>>, NoDu, FALSE,
                            (IF r.raised THEN Measured("Raised", None)
                             ELSE Returned), <<>>, "none", FALSE)
    /\ UNCHANGED <<fs, pending, batch, scan, now, store, inspected, workers>>

SizeTick ==
    /\ now < MaxTime
    /\ now' = now + 1
    /\ UNCHANGED <<fs, pending, batch, last, scan, cache, store, inspected, workers>>

\* something outside the program damages or removes the cache file
EnvStore ==
    /\ \E st \in DamagedFiles \ {store} : store' = st
    /\ UNCHANGED <<fs, pending, batch, last, scan, cache, now, inspected, workers>>

\* something outside the program removes or recreates the npm cache directory
EnvDir ==
    /\ fs' = IF Npm \in fs THEN fs \ {Npm} ELSE fs \cup {Npm}
    /\ UNCHANGED <<pending, batch, last, scan, cache, now, store, inspected, workers>>

SizeNext ==
    \/ GetDirSize
    \/ ScanPatternTask
    \/ SaveCache
    \/ ClearCache
    \/ NewScanCache
    \/ SizeTick
    \/ EnvStore
    \/ EnvDir

SpecSize == SizeInit /\ [][SizeNext]_vars

----------------------------------------------------------------------------
(* the pool threads of scan_known_cruft inside ScanCache.get / ScanCache.set *)
(* on the one shared dict: a thread can be switched between any two        *)
(* operations on the dict                                                  *)

\* the numbers of entries under other keys found in the cache file
WorkerFill == {98, 99}

\* the path thread w measures: every task has its own pattern
WorkerPath(w) == Expand(CRUFT_PATTERNS[w])

\* the size a thread writes
WorkerSize == 1000

\* a thread about to enter get(path) or set(path, ...)
Thread(op, path) ==
    [op |-> op, path |-> path, pc |-> op, len0 |-> 0, fill_seen |-> FALSE,
     seen |-> {}, expired_keys |-> {}, fill_expired |-> FALSE,
     result |-> NoEntry]

WorkersInit ==
    /\ fs = Dirs
    /\ pending = {}
    /\ batch = Idle
    /\ scan = ScanIdle
    /\ \E ttl_seconds \in TtlChoices, fill \in WorkerFill :
          cache = ScanCache(ttl_seconds, fill)
    /\ now = 0
    /\ store = MissingFile
    /\ inspected = {}
    /\ workers = NoWorkers
    /\ last = CacheCall("init", <<>>, NoEntry, EmptyCache, EmptyCache)

\* before the pool runs: one thread writes an entry
WorkerSetup ==
    /\ workers.threads = <<>>
    /\ \E w \in 1..MaxWorkers :
        \E c2 \in {CacheSet(cache, WorkerPath(w), WorkerSize, TRUE, "None", now)} :
            /\ cache' = c2
            /\ last' = CacheCall("set", WorkerPath(w), NoEntry, cache, c2)
    /\ UNCHANGED <<fs, pending, batch, scan, now, store, inspected, workers>>

WorkerTick ==
    /\ workers.threads = <<>>
    /\ now < MaxTime
    /\ now' = now + 1
    /\ last' = CacheCall("tick", <<>>, NoEntry, cache, cache)
    /\ UNCHANGED <<fs, pending, batch, scan, cache, store, inspected, workers>>

\* the pool threads enter their cache calls
WorkersStart ==
    /\ workers.threads = <<>>
    /\ \E ops \in [1..MaxWorkers -> {"get", "set"}] :
          workers' = [threads |-> [w \in 1..MaxWorkers |->
                                      Thread(ops[w], WorkerPath(w))],
                      start |-> cache]
    /\ last' = CacheCall("start", <<>>, NoEntry, cache, cache)
    /\ UNCHANGED <<fs, pending, batch, scan, cache, now, store, inspected>>

\* the dict without key k
Without(c, k) ==
    [c EXCEPT !.entries = [x \in DOMAIN c.entries \ {k} |-> c.entries[x]]]

\* get(): entry = self._cache.get(key), and the expiry test on the entry
GetRead(t) ==
    LET key == CacheKey(t.path) IN
    IF key \notin DOMAIN cache.entries
        THEN [t EXCEPT !.pc = "done"]
    ELSE IF is_expired(cache.entries[key].timestamp, cache.ttl_seconds, now)
        THEN [t EXCEPT !.pc = "get_del"]
    ELSE [t EXCEPT !.pc = "done", !.result = cache.entries[key]]

\* get(): del self._cache[key]; a key that is no longer there is a KeyError
GetDel(t) ==
    IF CacheKey(t.path) \in DOMAIN cache.entries
        THEN [t EXCEPT !.pc = "done"]
    ELSE [t EXCEPT !.pc = "KeyError"]

\* set(): self._cache[key] = entry
SetWrite(t) ==
    [cache EXCEPT !.entries =
        [k \in DOMAIN cache.entries \cup {CacheKey(t.path)} |->
            IF k = CacheKey(t.path)
                THEN CacheEntry(now, WorkerSize, TRUE, "None")
            ELSE cache.entries[k]]]

\* set(): len(self._cache) % 100 == 0, and _clean_expired starts to iterate
SetLen(t) ==
    IF CacheLen(cache) % CleanEvery = 0
        THEN [t EXCEPT !.pc = "iterate", !.len0 = CacheLen(cache)]
    ELSE [t EXCEPT !.pc = "done"]

\* one thread takes its next step on the dict
WorkerStep ==
    /\ \E w \in DOMAIN workers.threads :
        LET t == workers.threads[w]
            key == CacheKey(t.path)
            goes(t2) == workers' = [workers EXCEPT !.threads[w] = t2]
        IN
        \/ /\ t.pc = "get"
           /\ goes(GetRead(t))
           /\ UNCHANGED cache
        \/ /\ t.pc = "get_del"
           /\ goes(GetDel(t))
           /\ cache' = Without(cache, key)
        \/ /\ t.pc = "set"
           /\ goes([t EXCEPT !.pc = "set_len"])
           /\ cache' = SetWrite(t)
        \/ /\ t.pc = "set_len"
           /\ goes(SetLen(t))
           /\ UNCHANGED cache
        \* the list comprehension of _clean_expired over self._cache.items():
        \* the iterator raises RuntimeError when the dict changed its size
        \/ /\ t.pc = "iterate"
           /\ UNCHANGED cache
           /\ IF CacheLen(cache) # t.len0
                  THEN goes([t EXCEPT !.pc = "RuntimeError"])
              ELSE IF ~t.fill_seen
                  THEN goes([t EXCEPT !.fill_seen = TRUE,
                                      !.fill_expired =
                                          cache.fill > 0
                                          /\ is_expired(cache.fill_ts,
                                                        cache.ttl_seconds, now)])
              ELSE IF DOMAIN cache.entries \subseteq t.seen
                  THEN goes([t EXCEPT !.pc = "delete"])
              ELSE \E k \in DOMAIN cache.entries \ t.seen :
                      goes([t EXCEPT !.seen = @ \cup {k},
                                     !.expired_keys =
                                         IF is_expired(cache.entries[k].timestamp,
                                                       cache.ttl_seconds, now)
                                             THEN @ \cup {k} ELSE @])
        \* for key in expired_keys: del self._cache[key]
        \/ /\ t.pc = "delete"
           /\ IF t.fill_expired
                  THEN /\ goes([t EXCEPT !.fill_expired = FALSE])
                       /\ cache' = [cache EXCEPT !.fill = 0]
              ELSE IF t.expired_keys = {}
                  THEN /\ goes([t EXCEPT !.pc = "done"])
                       /\ UNCHANGED cache
              ELSE \E k \in t.expired_keys :
                      /\ goes([t EXCEPT !.expired_keys = @ \ {k},
                                        !.pc = IF k \in DOMAIN cache.entries
                                                   THEN "delete" ELSE "KeyError"])
                      /\ cache' = Without(cache, k)
    /\ last' = CacheCall("step", <<>>, NoEntry, cache, cache)
    /\ UNCHANGED <<fs, pending, batch, scan, now, store, inspected>>

Ended == {"done", "KeyError", "RuntimeError"}

\* every thread has left its call: the pool is joined
WorkersJoin ==
    /\ workers.threads # <<>>
    /\ \A w \in DOMAIN workers.threads : workers.threads[w].pc \in Ended
    /\ workers' = NoWorkers
    /\ last' = CacheCall("join", <<>>, NoEntry, cache, cache)
    /\ UNCHANGED <<fs, pending, batch, scan, cache, now, store, inspected>>

WorkersNext ==
    \/ WorkerSetup
    \/ WorkerTick
    \/ WorkersStart
    \/ WorkerStep
    \/ WorkersJoin

SpecWorkers == WorkersInit /\ [][WorkersNext]_vars

----------------------------------------------------------------------------
(* tools.py execute_tool: the inspection tools, the tools that run an      *)
(* external command, and approve_path_for_deletion with its reason          *)

\* the timeout arguments of subprocess.run, in seconds
ListDuTimeout == 30
WhichTimeout == 5
DfTimeout == 10
CleanupTimeout == 300

\* subprocess.run called without a timeout argument
NoTimeout == None

\* how an external process behaves: it exits with status 0 or 1, it never
\* exits by itself, or it cannot be started
ProcBehaviours == {"exits0", "exits1", "hangs", "OSError"}

\* subprocess.run(cmd, timeout=timeout): the process is killed and
\* TimeoutExpired raised when the timeout runs out; without a timeout the
\* call waits for the process to exit
Run(timeout, proc) ==
    IF proc = "hangs"
        THEN (IF timeout = NoTimeout THEN "Blocked" ELSE "TimeoutExpired")
    ELSE proc

\* the raw strings passed as args["path"]
ToolInputs ==
    { <<"/", "home", "u">>,
      <<"/", "home", "u", ".npm">>,
      <<"/", "home", "u", ".", ".npm", "">>,
      <<"/", "home", "u", "Library", "Containers", "com.docker.docker">>,
      <<"/", "home", "u", ".cache", "pip">> }

\* args.get("reason"): the key is absent, or its value
ReasonInputs == {"absent", "", "old cache"}

\* reason = args.get("reason", "User requested")
ReasonOf(given) == IF given = "absent" THEN "User requested" ELSE given

\* args["command"] of run_cleanup_command
CommandInputs == {"pip_cache_purge", "docker_prune", "rm_rf"}

\* the keys of the dict "commands"
commands == {"brew_cleanup", "pip_cache_purge", "npm_cache_clean",
             "yarn_cache_clean", "docker_prune"}

ToolCall(op, path, reason, proc, kind) ==
    [op |-> op, path |-> path, reason |-> reason, proc |-> proc, kind |-> kind]

ToolsInit ==
    /\ fs = Dirs
    /\ pending = {}
    /\ batch = Idle
    /\ scan = ScanIdle
    /\ cache = EmptyCache
    /\ now = 0
    /\ store = MissingFile
    /\ inspected = {}
    /\ workers = NoWorkers
    /\ last = ToolCall("init", <<>>, "", "none", "none")

\* the call waits for a process that never exits
Blocked == last.kind = "Blocked"

\* get_directory_size: the existence check, then get_dir_size outside any try
GetDirectorySize ==
    /\ ~Blocked
    /\ \E raw \in ToolInputs :
        LET path == PathOf(raw) IN
        IF ~Exists(path, fs)
        THEN /\ last' = ToolCall("get_directory_size", path, "", "none", "NotFound")
             /\ UNCHANGED inspected
        ELSE \E meas \in Measurements :
            /\ last' = ToolCall("get_directory_size", path, "",
                                (IF meas.t = "TimeoutError" THEN "hangs"
                                 ELSE "exits0"),
                                (IF Raises(meas) THEN "Raised"
                                 ELSE IF meas.bytes = None THEN "NoSize"
                                 ELSE "Size"))
            /\ inspected' = IF ~Raises(meas) /\ meas.bytes # None
                                THEN inspected \cup {path} ELSE inspected
    /\ UNCHANGED <<fs, pending, batch, scan, cache, now, store, workers>>

\* list_directory: du -sk on the children with timeout=30, every exception
\* turned into an error text
ListDirectory ==
    /\ ~Blocked
    /\ \E raw \in ToolInputs :
        LET path == PathOf(raw) IN
        IF ~Exists(path, fs)
        THEN /\ last' = ToolCall("list_directory", path, "", "none", "NotFound")
             /\ UNCHANGED inspected
        ELSE \E proc \in ProcBehaviours :
            \E r \in {Run(ListDuTimeout, proc)} :
                /\ last' = ToolCall("list_directory", path, "", proc,
                                    (IF r \in {"exits0", "exits1"} THEN "Listed"
                                     ELSE IF r = "Blocked" THEN "Blocked"
                                     ELSE "Error"))
                /\ inspected' = IF r \in {"exits0", "exits1"}
                                    THEN inspected \cup {path} ELSE inspected
    /\ UNCHANGED <<fs, pending, batch, scan, cache, now, store, workers>>

\* check_tool_installed: which with timeout=5
CheckToolInstalled ==
    /\ ~Blocked
    /\ \E proc \in ProcBehaviours :
        \E r \in {Run(WhichTimeout, proc)} :
            last' = ToolCall("check_tool_installed", <<>>, "", proc,
                             (IF r = "exits0" THEN "Installed"
                              ELSE IF r = "exits1" THEN "NotInstalled"
                              ELSE IF r = "Blocked" THEN "Blocked"
                              ELSE "Error"))
    /\ UNCHANGED <<fs, pending, batch, scan, cache, now, store, inspected, workers>>

\* get_disk_usage: df with timeout=10
GetDiskUsage ==
    /\ ~Blocked
    /\ \E proc \in ProcBehaviours :
        \E r \in {Run(DfTimeout, proc)} :
            last' = ToolCall("get_disk_usage", <<>>, "", proc,
                             (IF r \in {"exits0", "exits1"} THEN "DiskUsage"
                              ELSE IF r = "Blocked" THEN "Blocked"
                              ELSE "Error"))
    /\ UNCHANGED <<fs, pending, batch, scan, cache, now, store, inspected, workers>>

\* run_cleanup_command: which without a timeout and outside the try, then
\* the command with timeout=300 inside it
RunCleanupCommand ==
    /\ ~Blocked
    /\ \E command \in CommandInputs, which \in ProcBehaviours,
          proc \in ProcBehaviours :
        \E w \in {Run(NoTimeout, which)}, r \in {Run(CleanupTimeout, proc)} :
            last' =
                IF command \notin commands
                    THEN ToolCall("run_cleanup_command", <<>>, "", "none",
                                  "UnknownCommand")
                ELSE IF w = "Blocked"
                    THEN ToolCall("run_cleanup_command", <<>>, "", which, "Blocked")
                ELSE IF w = "OSError"
                    THEN ToolCall("run_cleanup_command", <<>>, "", which, "Raised")
                ELSE IF w = "exits1"
                    THEN ToolCall("run_cleanup_command", <<>>, "", which,
                                  "NotInstalled")
                ELSE ToolCall("run_cleanup_command", <<>>, "", proc,
                              (IF r \in {"exits0", "exits1"} THEN "Ran"
                               ELSE IF r = "TimeoutExpired" THEN "TimedOut"
                               ELSE IF r = "Blocked" THEN "Blocked"
                               ELSE "Error"))
    /\ UNCHANGED <<fs, pending, batch, scan, cache, now, store, inspected, workers>>

\* approve_path_for_deletion(path, reason)
ApproveWithReason ==
    /\ ~Blocked
    /\ \E raw \in ToolInputs, given \in ReasonInputs :
        \E o \in ApprovePath(PathOf(raw), fs, pending) :
            /\ pending' = o.pending
            /\ last' = ToolCall("approve_path_for_deletion", PathOf(raw), given,
                                (IF o.kind = "Raised" THEN "hangs" ELSE "none"),
                                o.kind)
    /\ UNCHANGED <<fs, batch, scan, cache, now, store, inspected, workers>>

ToolsNext ==
    \/ GetDirectorySize
    \/ ListDirectory
    \/ CheckToolInstalled
    \/ GetDiskUsage
    \/ RunCleanupCommand
    \/ ApproveWithReason

SpecTools == ToolsInit /\ [][ToolsNext]_vars

----------------------------------------------------------------------------
(* validation.py: sanitize_path and validate_directory_for_deletion.  A    *)
(* path string is the sequence of its characters                           *)

\* the characters str.strip() removes
Whitespace == {" ", "\t", "\n", "\r"}

RECURSIVE LStrip(_)
LStrip(str) ==
    IF str # <<>> /\ Head(str) \in Whitespace THEN LStrip(Tail(str)) ELSE str

RECURSIVE RStrip(_)
RStrip(str) ==
    IF str # <<>> /\ str[Len(str)] \in Whitespace
        THEN RStrip(SubSeq(str, 1, Len(str) - 1))
    ELSE str

\* a strip() that removes nothing
StripNothing(str) == str

\* path_str.strip()
Strip(str) == RStrip(LStrip(str))

\* re.search of a literal text: it occurs somewhere in str
Search(text, str) ==
    \E i \in 1..(Len(str) - Len(text) + 1) :
        SubSeq(str, i, i + Len(text) - 1) = text

\* re.search of "^" followed by a literal text: str starts with it
SearchAtStart(text, str) ==
    Len(str) >= Len(text) /\ SubSeq(str, 1, Len(text)) = text

\* the grave accent (U+0060), a character that cannot be written in a string
\* of this notation
Backtick == "grave"

\* dangerous_patterns, in the order of the list
dangerous_patterns ==
    << [anchored |-> FALSE, text |-> <<".", ".", "/">>],
       [anchored |-> FALSE, text |-> <<"/", ".", ".">>],
       [anchored |-> TRUE,  text |-> <<".", ".">>],
       [anchored |-> FALSE, text |-> <<";">>],
       [anchored |-> FALSE, text |-> <<"|">>],
       [anchored |-> FALSE, text |-> <<"&">>],
       [anchored |-> FALSE, text |-> <<"$", "(">>],
       [anchored |-> FALSE, text |-> <<Backtick>>],
       [anchored |-> FALSE, text |-> <<"\n">>],
       [anchored |-> FALSE, text |-> <<"\r">>] >>

\* the loop over dangerous_patterns finds a match in str
Dangerous(str) ==
    \E i \in 1..Len(dangerous_patterns) :
        IF dangerous_patterns[i].anchored
            THEN SearchAtStart(dangerous_patterns[i].text, str)
        ELSE Search(dangerous_patterns[i].text, str)

\* the characters of a segment as one string
RECURSIVE Join(_)
Join(chars) == IF chars = <<>> THEN "" ELSE Head(chars) \o Join(Tail(chars))

\* str.split("/"): the segments between slashes, each a sequence of characters
RECURSIVE Split(_, _)
Split(str, cur) ==
    IF str = <<>> THEN <<cur>>
    ELSE IF Head(str) = "/" THEN <<cur>> \o Split(Tail(str), <<>>)
    ELSE Split(Tail(str), cur \o <<Head(str)>>)

\* the segments PurePath keeps: "" and "." vanish
RECURSIVE KeptSegs(_)
KeptSegs(segs) ==
    IF segs = <<>> THEN <<>>
    ELSE IF Head(segs) \in {<<>>, <<".">>} THEN KeptSegs(Tail(segs))
    ELSE <<Head(segs)>> \o KeptSegs(Tail(segs))

\* the number of slashes str starts with
RECURSIVE LeadingSlashes(_)
LeadingSlashes(str) ==
    IF str # <<>> /\ Head(str) = "/" THEN 1 + LeadingSlashes(Tail(str)) ELSE 0

\* os.getcwd()
Cwd == <<"/", "work">>

RECURSIVE JoinAll(_)
JoinAll(segs) ==
    IF segs = <<>> THEN <<>> ELSE <<Join(Head(segs))>> \o JoinAll(Tail(segs))

Unsafe(msg) == [kind |-> "UnsafePathError", msg |-> msg, path |-> <<>>]

\* Path(path_str).expanduser().resolve() on a string without ".." segments:
\* "~" is the home directory, "~name" a user that does not exist
\* (RuntimeError), a relative path starts at the working directory
ExpandAndResolve(str) ==
    LET segs == KeptSegs(Split(str, <<>>))
        n == LeadingSlashes(str)
    IN  IF n > 0
            THEN [kind |-> "accepted", msg |-> "",
                  path |-> <<(IF n = 2 THEN "//" ELSE "/")>> \o JoinAll(segs)]
        ELSE IF segs # <<>> /\ Head(Head(segs)) = "~"
            THEN (IF Head(segs) = <<"~">>
                      THEN [kind |-> "accepted", msg |-> "",
                            path |-> Home \o JoinAll(Tail(segs))]
                  ELSE Unsafe("Invalid path"))
        ELSE [kind |-> "accepted", msg |-> "", path |-> Cwd \o JoinAll(segs)]

\* sanitize_path(path_str)
sanitize_path(path_str) ==
    IF path_str = <<>> \/ Strip(path_str) = <<>>
        THEN Unsafe("Path cannot be empty")
    ELSE IF Dangerous(Strip(path_str))
        THEN Unsafe("Path contains unsafe pattern")
    ELSE ExpandAndResolve(Strip(path_str))

\* default_protected of validate_directory_for_deletion
default_protected ==
    << Home,
       Home \o <<"Documents">>,
       Home \o <<"Desktop">>,
       Home \o <<"Downloads">>,
       Home \o <<"Pictures">>,
       Home \o <<"Music">>,
       Home \o <<"Movies">>,
       <<"/">>,
       <<"/", "System">>,
       <<"/", "Applications">>,
       <<"/", "usr">>,
       <<"/", "bin">>,
       <<"/", "sbin">>,
       <<"/", "lib">>,
       <<"/", "etc">> >>

\* what the kernel makes of a path: one that does not start at the root is
\* taken from the working directory
Absolute(path) ==
    IF path # <<>> /\ Head(path) \in {"/", "//"} THEN path ELSE Cwd \o path

special_subdirs ==
    {"Documents", "Desktop", "Downloads", "Pictures", "Music", "Movies"}

\* the loop over default_protected from entry i on: the message of the
\* UnsafePathError it raises, or "" when it runs out
RECURSIVE ProtectedPathLoop(_, _)
ProtectedPathLoop(path, i) ==
    IF i > Len(default_protected) THEN ""
    ELSE IF path = default_protected[i]
        THEN "Cannot delete protected path"
    ELSE IF IsRelativeTo(path, default_protected[i])
        THEN (IF default_protected[i] = Home
                  THEN (IF \E k \in 1..Len(path) : path[k] \in special_subdirs
                            THEN "Cannot delete special directory"
                        ELSE ProtectedPathLoop(path, i + 1))
              ELSE "Cannot delete path under protected directory")
    ELSE ProtectedPathLoop(path, i + 1)

\* validate_directory_for_deletion(path): the exception it raises and its
\* message, or "accepted"
validate_directory_for_deletion(path, disk) ==
    IF ~Exists(Absolute(path), disk)
        THEN [kind |-> "PathNotFoundError", msg |-> "Path does not exist"]
    ELSE IF ProtectedPathLoop(path, 1) # ""
        THEN [kind |-> "UnsafePathError", msg |-> ProtectedPathLoop(path, 1)]
    ELSE IF HomeRelativeTo(path)
        THEN [kind |-> "UnsafePathError",
              msg |-> "Cannot delete path that contains home directory"]
    ELSE [kind |-> "accepted", msg |-> ""]

\* the length of the path strings passed to sanitize_path
MaxLen == 4

\* the characters of the path strings of any length up to MaxLen, and those
\* that only appear in strings of one or two characters
Chars == {"/", ".", "a", " ", "\n", ";", "~"}
MoreChars == {"|", "&", "$", "(", Backtick, "\r", "\t"}

PathStrings ==
    UNION {[1..n -> Chars] : n \in 0..MaxLen}
        \cup UNION {[1..n -> Chars \cup MoreChars] : n \in 1..2}

\* the directories that may exist next to those of Dirs
OptionalDirs == {Home \o <<"Desktop">>, Home \o <<"proj">>, <<"/", "usr">>}

\* the paths passed to validate_directory_for_deletion
ValidatedPaths ==
    {default_protected[i] : i \in 1..Len(default_protected)}
        \cup {Npm, Home \o <<"proj">>, Home \o <<"proj", "Documents">>,
              HomeParent, <<"/", "usr", "local">>, <<"/", "tmp">>}

ValidationCall(op, input, result) ==
    [op |-> op, input |-> input, result |-> result]

\* the call has been made and has not returned
Called == [kind |-> "called", msg |-> ""]

\* one call of one of the two functions, with its argument
ValidationInit ==
    /\ \/ /\ fs = Dirs
          /\ \E path_str \in PathStrings :
                last = ValidationCall("sanitize_path", path_str, Called)
       \/ /\ \E opt \in SUBSET OptionalDirs : fs = Dirs \cup opt
          /\ \E path \in ValidatedPaths :
                last = ValidationCall("validate_directory_for_deletion", path,
                                      Called)
    /\ pending = {}
    /\ batch = Idle
    /\ scan = ScanIdle
    /\ cache = EmptyCache
    /\ now = 0
    /\ store = MissingFile
    /\ inspected = {}
    /\ workers = NoWorkers

SanitizePath ==
    /\ last.op = "sanitize_path"
    /\ last.result = Called
    /\ last' = [last EXCEPT !.result = sanitize_path(last.input)]
    /\ UNCHANGED <<fs, pending, batch, scan, cache, now, store, inspected, workers>>

ValidateDirectoryForDeletion ==
    /\ last.op = "validate_directory_for_deletion"
    /\ last.result = Called
    /\ last' = [last EXCEPT
                   !.result = validate_directory_for_deletion(last.input, fs)]
    /\ UNCHANGED <<fs, pending, batch, scan, cache, now, store, inspected, workers>>

ValidationNext ==
    \/ SanitizePath
    \/ ValidateDirectoryForDeletion

SpecValidation == ValidationInit /\ [][ValidationNext]_vars

----------------------------------------------------------------------------
(* cli.py: the clean command, run in the working directory Cwd *)

WorkModules == Cwd \o <<"node_modules">>

\* the PATH arguments of "devclean clean PATH": relative to the working
\* directory, absolute, and one that does not exist
CleanTargets ==
    {<<"node_modules">>, <<"..", "home", "u", ".npm">>, WorkModules, Npm,
     <<"missing">>}

\* how the removal of clean ends: "sudo rm -rf" is run without a timeout
CleanRmOutcomes(sudo) == RmOutcomes(sudo) \ {"TimeoutExpired"}

\* clean(path, force, sudo) with config.safety.require_confirmation =
\* require, the answer to the prompt, the measurement and the end of the
\* removal: what the command ends with and what it removed
clean(target, force, sudo, require, answer, meas, rm, disk) ==
    IF ~Exists(Absolute(target), disk)
        THEN [kind |-> "NotFound", removed |-> {}]
    ELSE IF validate_directory_for_deletion(target, disk).kind # "accepted"
        THEN [kind |-> "SafetyCheckFailed", removed |-> {}]
    ELSE IF Raises(meas) THEN [kind |-> "Raised", removed |-> {}]
    ELSE IF require /\ ~force /\ ~answer
        THEN [kind |-> "Cancelled", removed |-> {}]
    ELSE IF rm = "ok"
        THEN [kind |-> "Deleted", removed |-> TreeOf(Absolute(target), disk)]
    ELSE IF rm = "PermissionError"
        THEN [kind |-> "PermissionDenied", removed |-> {}]
    ELSE IF sudo THEN [kind |-> "Error", removed |-> {}]
    ELSE [kind |-> "Raised", removed |-> {}]

CleanCall(op, target, force, r) ==
    [op |-> op, target |-> target, force |-> force, kind |-> r.kind,
     removed |-> r.removed]

\* a process started for one command: the authorization set of tools.py is
\* empty in it
CleanInit ==
    /\ fs = Dirs \cup {Cwd, WorkModules}
    /\ pending = {}
    /\ batch = Idle
    /\ scan = ScanIdle
    /\ cache = EmptyCache
    /\ now = 0
    /\ store = MissingFile
    /\ inspected = {}
    /\ workers = NoWorkers
    /\ last = CleanCall("init", <<>>, FALSE, [kind |-> "none", removed |-> {}])

Clean ==
    /\ \E target \in CleanTargets, force \in BOOLEAN, sudo \in BOOLEAN,
          require \in BOOLEAN, answer \in BOOLEAN, meas \in Measurements :
        \E rm \in CleanRmOutcomes(sudo) :
            \E r \in {clean(target, force, sudo, require, answer, meas, rm, fs)} :
                /\ fs' = fs \ r.removed
                /\ last' = CleanCall("clean", target, force, r)
    /\ UNCHANGED <<pending, batch, scan, cache, now, store, inspected, workers>>

\* between two commands a directory is made again, or a tree is removed
EnvChange ==
    /\ \E d \in {Npm, WorkModules, Docker, Documents} :
        fs' = IF d \in fs THEN fs \ TreeOf(d, fs) ELSE fs \cup {d}
    /\ last' = CleanCall("env", <<>>, FALSE, [kind |-> "none", removed |-> {}])
    /\ UNCHANGED <<pending, batch, scan, cache, now, store, inspected, workers>>

CleanNext ==
    \/ Clean
    \/ EnvChange

SpecClean == CleanInit /\ [][CleanNext]_vars

----------------------------------------------------------------------------
(* properties *)

PathInputs == {PathOf(raw) : raw \in RawInputs}

\* the outcomes of delete_directory that follow a removal attempt
AfterRemoval ==
    {"Succeeded", "FullDiskAccessRequired", "SudoFailed", "PermissionDenied",
     "UnknownError"}

\* the outcomes of one batch iteration that follow a removal attempt
AfterBatchRemoval ==
    {"Succeeded", "stderr: Permission denied", "stderr", "Permission denied",
     "str(e)"}

\* the eight structured outcomes of delete_directory
DeletionOutcomes ==
    {"Unauthorized", "NotFound", "ProtectedDenied"} \cup AfterRemoval

Kinds(outcomes) == {o.kind : o \in outcomes}

\* C1: a removal (shutil.rmtree or sudo rm -rf) of a path is started, by
\* delete_directory or by an iteration of force_delete_cruft, only if the path
\* is in _pending_confirmations when the removal starts.
C1_RemovalOnlyIfAuthorized ==
    [][ /\ (last'.op = "delete_directory" /\ last'.kind \in AfterRemoval)
            => last'.path \in pending
        /\ (last'.op = "force_delete_cruft" /\ last'.kind \in AfterBatchRemoval)
            => last'.path \in pending ]_vars

C1_Witness ==
    /\ last.op = "delete_directory"
    /\ last.kind = "Succeeded"
    /\ last.removed # {}

\* C2: delete_directory on a path that is not in the authorization set returns
\* Unauthorized for every use_sudo and force, and changes neither the
\* filesystem nor the authorization set.
C2_UnauthorizedNoMutation ==
    /\ [](\A p \in PathInputs \ pending, use_sudo \in BOOLEAN, force \in BOOLEAN :
            \A o \in DeleteDirectory(p, use_sudo, force, fs, pending) :
                o.kind = "Unauthorized" /\ o.removed = {} /\ o.pending = pending)
    /\ [][ (last'.op = "delete_directory" /\ last'.path \notin pending)
            => /\ last'.kind = "Unauthorized"
               /\ fs' = fs
               /\ pending' = pending ]_vars

C2_Witness ==
    /\ last.op = "delete_directory"
    /\ last.kind = "Unauthorized"
    /\ last.force
    /\ Exists(last.path, fs)

\* C3: for every authorized, existing path whose canonical form is the home
\* directory or an ancestor of it, delete with force = true (either use_sudo)
\* returns ProtectedDenied and removes nothing.
C3_HomeAncestorDeniedUnderForce ==
    \A p \in pending :
        (Exists(p, fs) /\ IsPrefix(Resolve(p), Home))
            => \A use_sudo \in BOOLEAN :
                 \A o \in DeleteDirectory(p, use_sudo, TRUE, fs, pending) :
                    o.kind = "ProtectedDenied" /\ o.removed = {}

\* C4: no call of the program (single delete with any flags, batch delete)
\* removes the home directory or one of its ancestors.
C4_HomeNeverRemoved ==
    last.op \in {"delete_directory", "force_delete_cruft"}
        => \A d \in last.removed : ~IsPrefix(d, Home)

\* the canonical forms of the protected list
ProtectedEntries == {Resolve(protected[i]) : i \in 1..Len(protected)}

\* C5: for an authorized, existing path that (in canonical form) equals an
\* entry of the protected list, delete with force = false returns
\* ProtectedDenied and removes nothing; with force = true the outcome is
\* ProtectedDenied exactly when the path is the home directory or an ancestor.
C5_ExactProtectedDenied ==
    \A p \in pending :
        (Exists(p, fs) /\ Resolve(p) \in ProtectedEntries)
            => \A use_sudo \in BOOLEAN :
                /\ \A o \in DeleteDirectory(p, use_sudo, FALSE, fs, pending) :
                      o.kind = "ProtectedDenied" /\ o.removed = {}
                /\ \A o \in DeleteDirectory(p, use_sudo, TRUE, fs, pending) :
                      o.kind = "ProtectedDenied" <=> IsPrefix(Resolve(p), Home)

\* the canonical path lies strictly below an entry of the protected list
StrictlyUnderProtected(p) ==
    \E e \in ProtectedEntries : IsPrefix(e, Resolve(p)) /\ e # Resolve(p)

\* C6: for an authorized, existing path that is a strict descendant of a
\* protected entry, delete with force = false is allowed exactly when the path
\* is the expanded template of a catalog pattern marked safe, and is
\* ProtectedDenied otherwise; force = true lifts that denial (the only denial
\* left is the one for the home directory and its ancestors).
C6_SafePatternOverride ==
    \A p \in pending :
        (Exists(p, fs) /\ StrictlyUnderProtected(p))
            => \A use_sudo \in BOOLEAN :
                /\ \A o \in DeleteDirectory(p, use_sudo, FALSE, fs, pending) :
                      o.kind # "ProtectedDenied"
                          <=> is_known_cruft_pattern(Resolve(p))
                /\ \A o \in DeleteDirectory(p, use_sudo, TRUE, fs, pending) :
                      o.kind = "ProtectedDenied" => IsPrefix(Resolve(p), Home)

\* C7: two spellings of the same canonical path get the same outcome kinds
\* from delete_directory (authorization lookup and safety decision) and the
\* same accept / refuse decision from approve_path_for_deletion.
C7_DecisionByCanonicalForm ==
    \A p \in PathInputs, q \in PathInputs :
        Resolve(p) = Resolve(q)
            => /\ \A use_sudo \in BOOLEAN, force \in BOOLEAN :
                    Kinds(DeleteDirectory(p, use_sudo, force, fs, pending))
                        = Kinds(DeleteDirectory(q, use_sudo, force, fs, pending))
               /\ Kinds(ApprovePath(p, fs, pending)) = Kinds(ApprovePath(q, fs, pending))

\* C8: delete of an authorized path that no longer exists returns NotFound
\* (nothing is raised), changes nothing on disk and releases the path, so
\* that the same delete repeated at once returns Unauthorized.
C8_MissingPathReleased ==
    [][ (last'.op = "delete_directory" /\ last'.path \in pending
            /\ ~Exists(last'.path, fs))
         => /\ last'.kind = "NotFound"
            /\ fs' = fs
            /\ pending' = pending \ {last'.path}
            /\ \A use_sudo \in BOOLEAN, force \in BOOLEAN :
                 Kinds(DeleteDirectory(last'.path, use_sudo, force, fs', pending'))
                     = {"Unauthorized"} ]_vars

C8_Witness ==
    /\ last.op = "delete_directory"
    /\ last.kind = "NotFound"
    /\ last.path \notin pending

\* C9: a path leaves the authorization set only in a step that deletes that
\* path successfully or finds it missing; every other outcome of a delete and
\* every scan or approval keeps the authorizations that exist.
C9_ReleaseOnlyOnSuccessOrMissing ==
    [][ \A p \in pending \ pending' :
            /\ last'.op \in {"delete_directory", "force_delete_cruft"}
            /\ last'.path = p
            /\ last'.kind \in {"Succeeded", "NotFound"} ]_vars

C9_Witness ==
    /\ last.op = "delete_directory"
    /\ last.kind \in {"PermissionDenied", "SudoFailed", "FullDiskAccessRequired",
                      "UnknownError", "ProtectedDenied"}
    /\ last.path \in pending
    /\ pending # {last.path}

\* C10: every delete_directory call returns one of the eight structured
\* outcomes; no exception leaves the call, whatever the size measurement does.
C10_AlwaysStructuredOutcome ==
    last.op = "delete_directory" => last.kind \in DeletionOutcomes

\* C11: the batch delete applies the single-path state machine to each path:
\* a path of the snapshot for which delete_directory (with either force value)
\* can only end in ProtectedDenied is not removed by its batch iteration.
C11_BatchAppliesSafetyCheck ==
    batch.active =>
        \A p \in batch.todo \cap pending :
            (\A force \in BOOLEAN :
                Kinds(DeleteDirectory(p, batch.use_sudo, force, fs, pending))
                    = {"ProtectedDenied"})
                => \A o \in BatchIteration(p, batch.use_sudo, fs, pending) :
                      o.removed = {}

\* C12: a batch processes the paths of its snapshot one at a time, each exactly
\* once, and it ends only by returning its result after the last of them: no
\* failure on one path (missing, permission error, sudo failure, measurement
\* error or timeout) ends the batch while paths of the snapshot are left.
C12_BatchProcessesEveryPath ==
    [][ /\ (batch.active /\ batch'.active)
            => \E p \in batch.todo :
                 /\ last'.path = p
                 /\ batch'.todo = batch.todo \ {p}
        /\ (batch.active /\ ~batch'.active)
            => (batch.todo = {} /\ last'.kind \in BatchReturned) ]_vars

FailedPaths(failed) == {f[1] : f \in failed}

\* a permission failure that elevation could fix: the removal ran without sudo
\* and was refused for lack of permission
ElevationCouldFix(f, use_sudo) == ~use_sudo /\ f[2] = "Permission denied"

\* C13: the result of a batch partitions the paths of the snapshot: each
\* iteration puts its path in exactly one class, a success (removed, released,
\* its measured size added to total_freed), a not-found path (released, in
\* neither list) or a failure (listed in failed_paths, still authorized); and
\* the retry-with-sudo hint is given exactly when some failure is a permission
\* failure that elevation could fix.
C13_BatchResultPartition ==
    [][ /\ (batch.active /\ batch'.active)
            => LET p == last'.path IN
               IF last'.kind = "Succeeded"
                   THEN /\ p \notin pending' /\ ~Exists(p, fs')
                        /\ batch'.deleted = batch.deleted \cup {p}
                        /\ batch'.failed = batch.failed
                        /\ batch'.total_freed - batch.total_freed
                              \in {0} \cup {kb * 1024 : kb \in DuChoicesKB}
               ELSE IF last'.kind = "NotFound"
                   THEN /\ p \notin pending' /\ fs' = fs
                        /\ batch'.deleted = batch.deleted
                        /\ batch'.failed = batch.failed
                        /\ batch'.total_freed = batch.total_freed
               ELSE /\ p \in pending' /\ fs' = fs
                    /\ batch'.deleted = batch.deleted
                    /\ FailedPaths(batch'.failed)
                          = FailedPaths(batch.failed) \cup {p}
                    /\ batch'.total_freed = batch.total_freed
        /\ (batch.active /\ last'.kind \in BatchReturned)
            => /\ batch.deleted \cap FailedPaths(batch.failed) = {}
               /\ batch.deleted \cap pending = {}
               /\ FailedPaths(batch.failed) \subseteq pending
               /\ last'.kind = "ReturnedRetryWithSudo"
                    <=> \E f \in batch.failed :
                          ElevationCouldFix(f, batch.use_sudo) ]_vars

\* the paths of a list of items
Paths(items) == {items[k].path : k \in 1..Len(items)}

\* C14: for every catalog pattern whose expanded target exists and was
\* measured with a size, the pattern's item is in the catalog collection of
\* the result if and only if the size is at least pattern.min_size_mb MB and
\* at least the global min_size_mb MB (pattern 100, global 50, measured 80 MB
\* is left out).
C14_ThresholdIff ==
    scan.phase = "returned" =>
        \A i \in 1..Len(CRUFT_PATTERNS) :
            LET pattern == CRUFT_PATTERNS[i]
                size == scan.du[Expand(pattern)]
            IN  (Exists(Expand(pattern), fs) /\ size.t = "size")
                    => (Expand(pattern) \in Paths(scan.result.items)
                        <=> /\ size.bytes >= pattern.min_size_mb * 1024 * 1024
                            /\ size.bytes >= scan.min_size_mb * 1024 * 1024)

C14_Witness ==
    /\ scan.phase = "returned"
    /\ scan.min_size_mb = 50
    /\ scan.du[Npm] = [t |-> "size", bytes |-> 80 * 1024 * 1024]
    /\ Npm \notin Paths(scan.result.items)
    /\ scan.du[Docker] = [t |-> "size", bytes |-> 120 * 1024 * 1024]
    /\ Docker \in Paths(scan.result.items)

\* a list of items is ordered by non-increasing size
NonIncreasing(items) ==
    \A k \in 1..(Len(items) - 1) :
        items[k].size_bytes >= items[k + 1].size_bytes

\* C15: in every ScanResult that scan_all returns, each of the three
\* collections (catalog items, venvs, node_modules) is ordered by
\* non-increasing size, whatever the order in which the tasks completed.
C15_CollectionsSorted ==
    scan.phase = "returned" =>
        /\ NonIncreasing(scan.result.items)
        /\ NonIncreasing(scan.result.venvs)
        /\ NonIncreasing(scan.result.node_modules)

\* a smaller catalog item completed before a larger one, and the first venv
\* visited is the smaller one
C15_Witness ==
    /\ scan.phase = "returned"
    /\ Len(scan.items) >= 2
    /\ scan.items[1].size_bytes < scan.items[2].size_bytes
    /\ Len(scan.result.venvs) = 2
    /\ scan.du[VenvA].bytes < scan.du[VenvB].bytes
    /\ Len(scan.result.node_modules) >= 1

\* the items of a catalog pass, put in the order in which their patterns were
\* submitted: what the pass collects when the tasks complete one after another
RECURSIVE InSubmissionOrder(_, _)
InSubmissionOrder(items, i) ==
    IF i > Len(CRUFT_PATTERNS) THEN <<>>
    ELSE LET OfPattern(item) == item.path = Expand(CRUFT_PATTERNS[i])
         IN  SelectSeq(items, OfPattern) \o InSubmissionOrder(items, i + 1)

\* C16: for a fixed disk (the same existence, sizes and probe results) and
\* fixed parameters, scan_all returns the same ordered result for every
\* worker count and every completion order, equal sizes included: the
\* catalog collection is the one of the run whose tasks complete in
\* submission order.
C16_ResultIndependentOfCompletionOrder ==
    scan.phase = "returned" =>
        scan.result.items = SortBySize(InSubmissionOrder(scan.items, 1))

\* the measurement of a catalog target failed: get_dir_size raised or gave None
MeasurementFailed(meas) == meas.t \in {"TimeoutError", "ScanError", "none"}

\* C17: a catalog pattern whose processing fails is skipped and nothing else
\* is: the step of the failing task leaves the collected items as they are and
\* the pass goes on, and in the returned result the failed pattern is absent
\* while every other pattern whose target exists and meets its threshold is
\* present.
C17_FailingPatternAloneSkipped ==
    /\ [](scan.phase = "returned" =>
            \A i \in 1..Len(CRUFT_PATTERNS) :
                LET pattern == CRUFT_PATTERNS[i]
                    size == scan.du[Expand(pattern)]
                IN  /\ MeasurementFailed(size)
                        => Expand(pattern) \notin Paths(scan.result.items)
                    /\ (/\ Exists(Expand(pattern), fs)
                        /\ size.t = "size"
                        /\ size.bytes >= effective_min(pattern, scan.min_size_mb)
                                            * 1024 * 1024)
                        => Expand(pattern) \in Paths(scan.result.items))
    /\ [][ \A i \in scan'.done \ scan.done :
              MeasurementFailed(scan'.du[Expand(CRUFT_PATTERNS[i])])
                  => /\ scan'.items = scan.items
                     /\ scan'.phase = "catalog" ]_vars

\* the first task failed, the pass completed and a later pattern is reported
C17_Witness ==
    /\ scan.phase = "returned"
    /\ scan.du[Npm].t = "TimeoutError"
    /\ scan.du[Google].t = "none"
    /\ Paths(scan.result.items) = {Docker}

\* C18: a measurement failure for one discovered virtual environment or
\* node_modules directory is recorded in ScanResult.errors and does not abort
\* the scan: the other directories discovered in the same pass that measure
\* at or above the pass's minimum, and the catalog items, are still returned.
C18_DiscoveryFailureIsolated ==
    scan.phase = "returned" =>
        /\ scan.include_venvs =>
            /\ (\E d \in {VenvA, VenvB} : Raises(scan.du[d]))
                 => \E k \in 1..Len(scan.result.errors) :
                       /\ scan.result.errors[k][1] = "venvs"
                       /\ Raises(scan.du[scan.result.errors[k][2]])
            /\ \A d \in {VenvA, VenvB} :
                 (/\ scan.du[d].t = "size"
                  /\ scan.du[d].bytes >= VenvMinSizeMb * 1024 * 1024)
                    => d \in Paths(scan.result.venvs)
        /\ scan.include_node_modules =>
            /\ Raises(scan.du[NodeMods])
                 => \E k \in 1..Len(scan.result.errors) :
                       scan.result.errors[k] = <<"node_modules", NodeMods>>
            /\ (/\ scan.du[NodeMods].t = "size"
                /\ scan.du[NodeMods].bytes >= NodeModulesMinSizeMb * 1024 * 1024)
                    => NodeMods \in Paths(scan.result.node_modules)
        /\ Paths(scan.result.items) = Paths(scan.items)

\* C19: once scan_disk has returned, every item of its result (catalog items,
\* venvs, node_modules) is in _pending_confirmations under the key that
\* delete_directory looks up, check_confirmation(str(Path(args["path"]))) for
\* the path string shown for the item.
C19_ScanRegistersEveryItem ==
    scan.phase = "returned" =>
        \A p \in Paths(scan.result.items) \cup Paths(scan.result.venvs)
                    \cup Paths(scan.result.node_modules) :
            check_confirmation(PathOf(p), pending)

C19_Witness ==
    /\ scan.phase = "returned"
    /\ last.op = "scan_disk"
    /\ scan.result.items # <<>>
    /\ scan.result.venvs # <<>>
    /\ scan.result.node_modules # <<>>
    /\ pending = Paths(scan.result.items) \cup Paths(scan.result.venvs)
                    \cup Paths(scan.result.node_modules)

\* the operations that name a path
KeyedOps == {"get", "set", "invalidate"}

\* C20: for any path and TTL, after set(path, s, true) a get(path) issued
\* before the TTL has elapsed returns an entry with size s, and a get(path)
\* issued after the TTL has elapsed returns absent and removes the entry,
\* whatever operations on other keys are interleaved.  In steps: set writes
\* the entry with the current time; get, set and invalidate on another key,
\* save and the passing of time leave an entry that has not expired as it
\* was written; get returns the stored entry while its age is below the TTL,
\* and returns None and deletes it once its age is above the TTL.
C20_SetThenGet ==
    [][ /\ last'.op = "set"
            => \E a \in SetArgs :
                 cache'.entries[CacheKey(last'.path)]
                    = CacheEntry(now, a[1], a[2], a[3])
        /\ \A key \in DOMAIN cache.entries :
            (/\ now - cache.entries[key].timestamp <= cache.ttl_seconds
             /\ \/ last'.op \in KeyedOps /\ CacheKey(last'.path) # key
                \/ last'.op \in {"save", "tick"})
                => /\ key \in DOMAIN cache'.entries
                   /\ cache'.entries[key] = cache.entries[key]
        /\ (last'.op = "get" /\ CacheKey(last'.path) \in DOMAIN cache.entries)
            => LET key == CacheKey(last'.path)
                   age == now - cache.entries[key].timestamp
               IN  /\ age < cache.ttl_seconds
                        => /\ last'.result = cache.entries[key]
                           /\ cache' = cache
                   /\ age > cache.ttl_seconds
                        => /\ last'.result = NoEntry
                           /\ key \notin DOMAIN cache'.entries ]_vars

\* a get, through the other spelling of the path, has just found the entry
\* expired and deleted it, while a younger entry under another key, written
\* in between, is still there
C20_Witness ==
    /\ last.op = "get"
    /\ last.path = Documents \o <<"..", ".npm">>
    /\ last.result = NoEntry
    /\ last.removed = {Npm}
    /\ DOMAIN cache.entries = {Docker}
    /\ cache.entries[Docker].size_bytes = 2000
    /\ cache.ttl_seconds = 1
    /\ cache.fill = 98

----------------------------------------------------------------------------
(* the cache as an optimization *)

\* the items the catalog task of pattern i reports when du ends as given and
\* the cache is c
TaskItems(i, min_size_mb, du, c) ==
    scan_pattern(CRUFT_PATTERNS[i], min_size_mb, fs,
                 get_dir_size(Expand(CRUFT_PATTERNS[i]), fs, c, now, du, TRUE).result,
                 "found")

\* C21: discarding the cache contents never changes what a scan reports: in
\* every reachable state, for the same disk and the same behaviour of du, the
\* catalog task reports the same item with the same size whether it starts
\* from the cache as it is or from the cache emptied
C21_CacheLossKeepsScanResult ==
    \A i \in SizePatterns, min_size_mb \in MinSizeChoices, du \in DuOutcomes :
        TaskItems(i, min_size_mb, du, cache)
            = TaskItems(i, min_size_mb, du, CacheClear(cache))

----------------------------------------------------------------------------
(* the shared cache under concurrent calls *)

\* the cache after thread w's call has run alone on cache c
Alone(c, t) ==
    IF t.op = "get" THEN CacheGet(c, t.path, now).cache
    ELSE CacheSet(c, t.path, WorkerSize, TRUE, "None", now)

\* the caches that the calls of the threads in ws leave when they run one
\* after the other, in any order, starting from c
RECURSIVE Sequential(_, _)
Sequential(c, ws) ==
    IF ws = {} THEN {c}
    ELSE UNION {Sequential(Alone(c, workers.threads[w]), ws \ {w}) : w \in ws}

\* C22: concurrent get and set calls of the scan workers, a sweeping set
\* included, are safe: no call ends with an exception, and when every call
\* has returned the cache is one that some sequential order of the same
\* calls produces
C22_ConcurrentCallsSafe ==
    /\ \A w \in DOMAIN workers.threads :
          workers.threads[w].pc \notin {"KeyError", "RuntimeError"}
    /\ (workers.threads # <<>>
            /\ \A w \in DOMAIN workers.threads : workers.threads[w].pc = "done")
        => cache \in Sequential(workers.start, DOMAIN workers.threads)

----------------------------------------------------------------------------
(* the cache file *)

\* the step constructs a ScanCache (the clock, the file and the disk stay)
Constructs == last'.op = "ScanCache" /\ UNCHANGED <<now, store, fs>>

\* C23: persistence failures never reach the caller: a ScanCache made over a
\* file that is missing, unreadable or corrupt (a bad entry after good ones
\* included) is constructed without an exception and is empty; a save whose
\* write fails returns normally and every entry that is not expired stays in
\* memory as it was
C23_PersistenceFailuresContained ==
    [][/\ (Constructs /\ store.state # "ok")
            => (last'.result = Returned /\ cache'.entries = <<>>)
       /\ (last'.op = "save" /\ last'.du.t # "ok")
            => /\ last'.result = Returned
               /\ \A k \in DOMAIN cache.entries :
                     ~is_expired(cache.entries[k].timestamp, cache.ttl_seconds, now)
                        => /\ k \in DOMAIN cache'.entries
                           /\ cache'.entries[k] = cache.entries[k]]_vars

----------------------------------------------------------------------------
(* explicit approval *)

\* C24: approve_path_for_deletion registers a path only if the caller has
\* inspected that same path before (a size measurement or a listing that
\* succeeded) and the reason of the call (the default one when none is
\* passed) is not empty
C24_ApprovalNeedsInspectionAndReason ==
    [][(last'.op = "approve_path_for_deletion" /\ last'.path \in pending'
            /\ last'.kind \in {"Approved", "Raised"})
        => (last'.path \in inspected /\ ReasonOf(last'.reason) # "")]_vars

----------------------------------------------------------------------------
(* external processes *)

\* the result kinds that report a failure
FailureKinds == {"Error", "TimedOut", "Raised"}

\* C25: no operation blocks: no call is left waiting for a process that never
\* exits, and a call whose process ran into its timeout ends with a failure
C25_NoOperationBlocks ==
    /\ last.kind # "Blocked"
    /\ last.proc = "hangs" => last.kind \in FailureKinds

----------------------------------------------------------------------------
(* validation *)

\* the messages that call the path, or a directory above it, protected
ProtectedMessages ==
    {"Cannot delete protected path",
     "Cannot delete path under protected directory"}

\* C26: validate_directory_for_deletion raises PathNotFoundError for a path
\* that does not exist, and for every existing path of the default protected
\* list an UnsafePathError whose message reports it as protected
C26_ProtectedPathsReported ==
    (last.op = "validate_directory_for_deletion" /\ last.result # Called)
    => /\ ~Exists(last.input, fs) => last.result.kind = "PathNotFoundError"
       /\ (Exists(last.input, fs)
              /\ \E i \in 1..Len(default_protected) :
                    last.input = default_protected[i])
          => /\ last.result.kind = "UnsafePathError"
             /\ last.result.msg \in ProtectedMessages

\* C29: sanitize_path raises UnsafePathError for every input that is empty or
\* only whitespace and for every input that contains a traversal sequence or
\* a shell metacharacter (newline and carriage return included); what it
\* accepts it returns as an absolute path
C29_SanitizeRejectsUnsafeInput ==
    (last.op = "sanitize_path" /\ last.result # Called)
    => /\ (\A i \in 1..Len(last.input) : last.input[i] \in Whitespace)
              => last.result.kind = "UnsafePathError"
       /\ Dangerous(last.input) => last.result.kind = "UnsafePathError"
       /\ last.result.kind = "accepted"
              => Head(last.result.path) \in {"/", "//"}

----------------------------------------------------------------------------
(* the tool probe of the catalog pass *)

\* C27: when the probe of a pattern's tool could not be run (it raised or ran
\* into its timeout), the pattern is still reported and its item carries
\* tool_installed = None
C27_ProbeFailureIsUnknown ==
    (last.op = "scan_pattern" /\ last.probe = "fails")
    => /\ Len(last.items) = 1
       /\ last.items[1].tool_installed = "None"

----------------------------------------------------------------------------
(* failed measurements *)

\* a step that is one direct call of get_dir_size
DirectCall == last'.op = "get_dir_size" /\ UNCHANGED <<fs, now, store>>

----------------------------------------------------------------------------
(* the order of the guards of delete_directory *)

\* C30: delete_directory looks at the authorization set first, then at the
\* disk, then at the safety of the path, and the first guard that fails
\* decides: an unauthorized path gives Unauthorized whether or not it exists
\* or is protected, an authorized missing path gives NotFound whether or not
\* it is protected, an authorized existing path that the safety check does
\* not allow gives ProtectedDenied; the disk changes only when all three
\* guards have passed and the measurement has not raised
C30_GuardOrder ==
    [][last'.op = "delete_directory"
        => LET p == last'.path IN
           /\ ~check_confirmation(p, pending)
               => last'.kind = "Unauthorized" /\ fs' = fs
           /\ (check_confirmation(p, pending) /\ ~Exists(p, fs))
               => last'.kind = "NotFound" /\ fs' = fs
           /\ (check_confirmation(p, pending) /\ Exists(p, fs)
                   /\ SafetyCheck(p, last'.force) # "allow")
               => last'.kind = "ProtectedDenied" /\ fs' = fs
           /\ last'.kind = "Raised" => fs' = fs
           /\ fs' # fs
               => /\ check_confirmation(p, pending)
                  /\ Exists(p, fs)
                  /\ SafetyCheck(p, last'.force) = "allow"]_vars

\* an unauthorized call on a protected path that exists was answered with
\* Unauthorized
C30_Witness ==
    /\ last.op = "delete_directory"
    /\ last.kind = "Unauthorized"
    /\ ~last.force
    /\ Exists(last.path, fs)
    /\ SafetyCheck(last.path, FALSE) # "allow"

----------------------------------------------------------------------------
(* the classification of a removal attempt *)

----------------------------------------------------------------------------
(* the batch that does not start *)

\* the results of the step that enters force_delete_cruft
BatchEntered == {"NotConfirmed", "NothingPending", "Started"}

\* C32: force_delete_cruft called without confirm = true returns at once, and
\* so does a call with confirm = true while the authorization set is empty:
\* neither starts the loop, neither changes the filesystem or the
\* authorization set
C32_UnconfirmedBatchChangesNothing ==
    [][(last'.op = "force_delete_cruft" /\ last'.kind \in BatchEntered)
        => /\ ~last'.confirm
               => /\ last'.kind = "NotConfirmed"
                  /\ UNCHANGED <<fs, pending, batch>>
           /\ (last'.confirm /\ pending = {})
               => /\ last'.kind = "NothingPending"
                  /\ UNCHANGED <<fs, pending, batch>>]_vars

\* a call without confirm returned while paths were authorized and on disk
C32_Witness ==
    /\ last.op = "force_delete_cruft"
    /\ last.kind = "NotConfirmed"
    /\ ~last.confirm
    /\ \E p \in pending : Exists(p, fs)
    /\ ~batch.active

----------------------------------------------------------------------------
(* the expiry sweep *)

\* C33: among any CleanEvery consecutive set() calls at least one runs the
\* sweep: no run of set() calls without a sweep reaches CleanEvery calls
C33_SweepEveryNthWrite ==
    last.op = "set" => last.writes < CleanEvery

----------------------------------------------------------------------------
(* discovery: one directory, one item *)

\* no two items of the list have the same canonical path
NoDuplicates(items) ==
    \A i, j \in 1..Len(items) :
        Resolve(items[i].path) = Resolve(items[j].path) => i = j

\* C34: in the result of a scan no directory appears twice among the virtual
\* environments and none appears twice among the dependency trees, although
\* the search directories overlap
C34_DiscoveredOnce ==
    scan.phase = "returned"
        => /\ NoDuplicates(scan.result.venvs)
           /\ NoDuplicates(scan.result.node_modules)

\* the directory lies inside a node_modules directory
InsideNodeModules(d) == \E k \in 2..(Len(d) - 1) : d[k] = "node_modules"

\* find -maxdepth 4 under a search directory that exists reaches d
WithinDepth(d, disk) ==
    \E i \in 1..Len(VENV_SEARCH_DIRS) :
        /\ Exists(VENV_SEARCH_DIRS[i], disk)
        /\ IsPrefix(VENV_SEARCH_DIRS[i], d)
        /\ Len(d) - Len(VENV_SEARCH_DIRS[i]) <= 4

\* C35: find_node_modules reports no directory that lies inside another
\* node_modules directory, however deep, and reports every node_modules
\* directory within the depth bound that lies inside no other one and
\* measures at least the threshold
C35_NestedTreesExcluded ==
    last.op = "find_node_modules"
        => /\ \A i \in 1..Len(last.items) : ~InsideNodeModules(last.items[i].path)
           /\ \A d \in fs :
                (/\ d[Len(d)] = "node_modules"
                 /\ ~InsideNodeModules(d)
                 /\ WithinDepth(d, fs)
                 /\ last.du[d].t = "size"
                 /\ last.du[d].bytes >= NodeModulesMinSizeMb * 1024 * 1024)
                    => \E i \in 1..Len(last.items) : last.items[i].path = d

----------------------------------------------------------------------------
(* what the validation lets through *)

\* C36: validate_directory_for_deletion raises nothing for an existing
\* directory below the home directory whose path has no component Documents,
\* Desktop, Downloads, Pictures, Music or Movies
C36_HomeSubdirectoryAccepted ==
    (/\ last.op = "validate_directory_for_deletion"
     /\ last.result # Called
     /\ Exists(last.input, fs)
     /\ IsPrefix(Home, last.input)
     /\ last.input # Home
     /\ \A k \in 1..Len(last.input) : last.input[k] \notin special_subdirs)
        => last.result.kind = "accepted"

----------------------------------------------------------------------------
(* the authorization check in front of the removals of the CLI *)

\* C37: the clean command removes its target only if the target is in the
\* authorization set
C37_CleanNeedsAuthorization ==
    [][(last'.op = "clean" /\ fs' # fs)
        => \/ last'.target \in pending
           \/ Absolute(last'.target) \in pending
           \/ Resolve(Absolute(last'.target)) \in pending]_vars

----------------------------------------------------------------------------
(* what delete_directory removes without force *)

\* C38: with force = false, delete_directory attempts a removal only of a path
\* that equals the expanded template of a catalog pattern marked safe; for
\* every other authorized path that exists it returns ProtectedDenied
C38_UnforcedRemovalOnlyOfSafePatterns ==
    (last.op = "delete_directory" /\ ~last.force)
        => /\ last.kind \in AfterRemoval => is_known_cruft_pattern(last.path)
           /\ (last.kind \notin {"Unauthorized", "NotFound"}
                   /\ ~is_known_cruft_pattern(last.path))
               => last.kind = "ProtectedDenied"

----------------------------------------------------------------------------
(* what enters the authorization set *)

\* the path is an entry of the list "protected" (Path equality)
IsProtectedEntry(p) == \E i \in 1..Len(protected) : p = protected[i]

----------------------------------------------------------------------------
(* remembered failures *)

\* the cache c holds, at time t, an unexpired error entry under the key of path
RemembersFailure(c, path, t) ==
    /\ CacheGet(c, path, t).result # NoEntry
    /\ CacheGet(c, path, t).result.error # "None"

\* the ways a measurement fails with an exception: the timeout, output that
\* cannot be parsed, or an exception of subprocess.run
FailedDu == {"TimeoutExpired", "unparseable", "OSError", "Exception"}

\* C40: a call of get_dir_size with the cache in use whose measurement fails
\* with a timeout, a parse error or another exception leaves an error entry
\* for the path in the cache; and a call that finds an unexpired error entry
\* for the path returns None, raises nothing, does not run du and leaves the
\* entry in place
C40_FailedMeasurementRemembered ==
    [][(DirectCall /\ last'.use_cache)
        => /\ (~last'.hit /\ last'.du.t \in FailedDu)
               => /\ RemembersFailure(cache', last'.path, now)
                  /\ cache'.entries[CacheKey(last'.path)].timestamp = now
           /\ RemembersFailure(cache, last'.path, now)
               => /\ last'.hit
                  /\ last'.du = NoDu
                  /\ last'.result = Measured("none", None)
                  /\ cache' = cache]_vars

====
